---------------------------- MODULE Spec2Model ----------------------------
(***************************************************************************)
(* A state-machine model of the consciousness-field engine: the static     *)
(* gate tables (core.py), the placement encoder (features.py), the graph   *)
(* scoring network (network.py), the nine-field interpretation layer       *)
(* (consciousness.py), the engine (engine.py) and the adjustable wrapper   *)
(* (adjustable.py).                                                        *)
(*                                                                         *)
(* Real numbers are fixed-point integers: the integer v stands for the     *)
(* real v / Scale.  Python lists are sequences, dicts are functions or     *)
(* records.  An Optional value is a sequence of length at most one: <<>>   *)
(* is None and <<v>> is the value v; an absent name is the string "None".  *)
(***************************************************************************)
EXTENDS Integers, Sequences, FiniteSets, TLC

(* core.py: the nine centers, in the order the dict lists them. *)
CenterNames == <<"Head", "Ajna", "Throat", "G", "Ego", "Spleen", "Solar", "Sacral", "Root">>

CENTERS ==
  [c \in {CenterNames[i] : i \in 1..Len(CenterNames)} |->
     CASE c = "Head" -> {64, 61, 63}
       [] c = "Ajna" -> {47, 24, 4, 17, 11, 43}
       [] c = "Throat" -> {62, 23, 56, 35, 12, 45, 33, 8, 31, 20, 16}
       [] c = "G" -> {7, 1, 13, 10, 15, 2, 46, 25}
       [] c = "Ego" -> {21, 51, 26, 40}
       [] c = "Spleen" -> {57, 44, 50, 32, 28, 18, 48}
       [] c = "Solar" -> {55, 49, 37, 22, 30, 36, 6}
       [] c = "Sacral" -> {5, 14, 29, 59, 9, 3, 42, 27, 34}
       [] c = "Root" -> {52, 19, 39, 41, 38, 54, 53, 60, 58}]

AWARENESS_SYSTEMS ==
  [a \in {"spleen", "ajna", "solar"} |->
     CASE a = "spleen" -> {57, 44, 50, 32, 28, 18}
       [] a = "ajna" -> {47, 24, 4, 17, 11, 43}
       [] a = "solar" -> {55, 49, 37, 22, 30, 36, 6}]

HEART_GATES == {21, 51, 26, 40}

MIND_GATES == AWARENESS_SYSTEMS["ajna"]

(* core.py: the channel list as written (names dropped), repeats and    *)
(* reversed pairs included.                                              *)
CHANNELS ==
  <<
     <<64, 47>>, <<61, 24>>, <<63, 4>>, <<47, 64>>, <<24, 61>>, <<4, 63>>, <<17, 62>>,
     <<43, 23>>, <<11, 56>>, <<31, 7>>, <<8, 1>>, <<33, 13>>, <<20, 10>>, <<16, 48>>,
     <<62, 17>>, <<23, 43>>, <<56, 11>>, <<7, 31>>, <<1, 8>>, <<13, 33>>, <<10, 20>>,
     <<25, 51>>, <<46, 29>>, <<2, 14>>, <<15, 5>>, <<10, 34>>, <<25, 51>>, <<7, 31>>,
     <<1, 8>>, <<13, 33>>, <<10, 20>>, <<25, 51>>, <<46, 29>>, <<10, 34>>, <<5, 15>>,
     <<14, 2>>, <<29, 46>>, <<34, 10>>, <<27, 50>>, <<59, 6>>, <<9, 52>>, <<3, 60>>,
     <<42, 53>>, <<48, 16>>, <<57, 10>>, <<44, 26>>, <<50, 27>>, <<32, 54>>, <<28, 38>>,
     <<18, 58>>, <<41, 30>>, <<39, 55>>, <<22, 12>>, <<37, 40>>, <<36, 35>>, <<6, 59>>,
     <<21, 45>>, <<26, 44>>, <<40, 37>>, <<51, 25>>, <<21, 45>>, <<26, 44>>, <<51, 25>>
  >>

(* core.py: the nine consciousness fields, in the order the dict lists    *)
(* them, with the centers and the awareness readout of each.              *)
FieldNames == <<"Mind", "Heart", "Body", "Soul", "Spirit", "Shadow", "Higher", "Lower", "Core">>

CONSCIOUSNESS_FIELDS ==
  [f \in {FieldNames[i] : i \in 1..Len(FieldNames)} |->
     CASE f = "Mind"   -> [centers |-> <<"Head", "Ajna">>,             awareness |-> "ajna"]
       [] f = "Heart"  -> [centers |-> <<"Ego", "Solar">>,             awareness |-> "solar"]
       [] f = "Body"   -> [centers |-> <<"Spleen", "Sacral", "Root">>, awareness |-> "spleen"]
       [] f = "Soul"   -> [centers |-> <<"G">>,                        awareness |-> "None"]
       [] f = "Spirit" -> [centers |-> <<"Throat">>,                   awareness |-> "None"]
       [] f = "Shadow" -> [centers |-> <<"Root">>,                     awareness |-> "spleen"]
       [] f = "Higher" -> [centers |-> <<"Head">>,                     awareness |-> "ajna"]
       [] f = "Lower"  -> [centers |-> <<"Sacral", "Root">>,           awareness |-> "spleen"]
       [] f = "Core"   -> [centers |-> <<"G", "Ego">>,                 awareness |-> "None"]]

NumGates == 64

Gates == 1..NumGates

(* ------------------------------------------------------------------ *)
(* Fixed-point arithmetic.                                            *)
(* ------------------------------------------------------------------ *)

(* The integer that stands for the real 1.0. *)
Scale == 1000

Abs(x) == IF x < 0 THEN -x ELSE x

Min(a, b) == IF a < b THEN a ELSE b

Max(a, b) == IF a > b THEN a ELSE b

(* Product and quotient of two fixed-point numbers. *)
Mul(a, b) == (a * b) \div Scale

Div(a, b) == (a * Scale) \div b

(* The sum of s[lo..hi], by halving, and the sum of a sequence. *)
RECURSIVE SumRange(_, _, _)
SumRange(s, lo, hi) ==
  IF lo > hi THEN 0
  ELSE IF lo = hi THEN s[lo]
  ELSE LET mid == (lo + hi) \div 2
       IN SumRange(s, lo, mid) + SumRange(s, mid + 1, hi)

SumSeq(s) == SumRange(s, 1, Len(s))

(* The sequence s as an explicit tuple: every element is computed once. *)
Built(s) == s \o <<>>

(* F applied to the value of v: LET w == v IN F(w), with v computed once. *)
Bind(v, F(_)) == CHOOSE r \in {F(w) : w \in {v}} : TRUE

Zeros(n) == Built([i \in 1..n |-> 0])

(* Floor of the square root of a natural number, by bisection. *)
RECURSIVE SqrtBetween(_, _, _)
SqrtBetween(n, lo, hi) ==
  IF hi - lo <= 1 THEN lo
  ELSE LET mid == (lo + hi) \div 2
       IN IF mid * mid <= n THEN SqrtBetween(n, mid, hi) ELSE SqrtBetween(n, lo, mid)

ISqrt(n) == IF n <= 0 THEN 0 ELSE SqrtBetween(n, 0, Min(n, 46339) + 1)

(* exp: e^(q/4) by repeated multiplication by e^(1/4) = 1.284, times   *)
(* 1 + r + r^2/2 for the remainder r in [0, 1/4); the argument is cut    *)
(* off at +/- ExpCut quarter units.                                      *)
ExpCut == 24

ExpPowers ==
  LET RECURSIVE up(_)
      up(n) == IF n = 0 THEN Scale ELSE (up(n - 1) * 1284) \div 1000
  IN Built([n \in 1..(ExpCut + 1) |-> up(n - 1)])

ExpQuarters(n) == IF n >= 0 THEN ExpPowers[n + 1] ELSE Div(Scale, ExpPowers[1 - n])

Exp(x) ==
  LET cut == Max(-ExpCut * Scale, Min(ExpCut * Scale, 4 * x))
      q   == cut \div Scale
      r   == (cut - q * Scale) \div 4
  IN (ExpQuarters(q) * (Scale + r + (r * r) \div (2 * Scale))) \div Scale

(* torch.sigmoid *)
Sigmoid(x) == Div(Scale, Scale + Exp(-x))

Relu(x) == IF x > 0 THEN x ELSE 0

(* ------------------------------------------------------------------ *)
(* features.py: QuantumFieldEncoder                                   *)
(* ------------------------------------------------------------------ *)

PLANETS == <<"Sun", "Earth", "Moon", "Mercury", "Venus", "Mars", "Jupiter", "Saturn",
             "Uranus", "Neptune", "Pluto", "North Node", "South Node">>

num_planets == Len(PLANETS)

KnownPlanets == {PLANETS[i] : i \in 1..num_planets}

(* QuantumFieldEncoder(embedding_dim=64), as the engine builds it. *)
embedding_dim == 64

NumLines == 6

(* How many placements of the list pls sit on line ln and carry a known planet. *)
LineCount(pls, ln) ==
  Len(SelectSeq(pls, LAMBDA p : p.planet \in KnownPlanets /\ p.line = ln))

(* _encode_gate_placements: the half row of one gate and one stream. *)
encode_gate_placements(pls) ==
  IF pls = <<>> THEN Zeros(embedding_dim \div 2)
  ELSE
    LET planet_vec == Built([i \in 1..num_planets |->
                         IF \E k \in 1..Len(pls) : pls[k].planet = PLANETS[i]
                         THEN Scale ELSE 0])
        counts     == Built([ln \in 1..NumLines |-> LineCount(pls, ln)])
        total      == SumSeq(counts)
        line_vec   == IF total > 0
                      THEN Built([ln \in 1..NumLines |-> (counts[ln] * Scale) \div total])
                      ELSE counts
        gate_features == planet_vec \o line_vec
        pad_size   == (embedding_dim \div 2) - Len(gate_features)
        padded     == IF pad_size > 0 THEN gate_features \o Zeros(pad_size)
                      ELSE gate_features
    IN SubSeq(padded, 1, embedding_dim \div 2)

(* The placements of one gate in the body stream / in any other stream. *)
body_placements(placements, gate) ==
  SelectSeq(placements, LAMBDA p : p.stream = "body" /\ p.gate = gate)

design_placements(placements, gate) ==
  SelectSeq(placements, LAMBDA p : p.stream # "body" /\ p.gate = gate)

(* The rows with every entry divided by the number of placements of the  *)
(* whole list rather than of the gate.                                   *)
encode_placements_list_normalised(placements) ==
  Built([gate \in Gates |->
     LET row == encode_gate_placements(body_placements(placements, gate))
                  \o encode_gate_placements(design_placements(placements, gate))
     IN Built([j \in 1..Len(row) |-> row[j] \div Max(1, Len(placements))])])

(* encode_placements: the node feature rows, one per gate. *)
encode_placements(placements) ==
  Built([gate \in Gates |->
     encode_gate_placements(body_placements(placements, gate))
       \o encode_gate_placements(design_placements(placements, gate))])

(* encode_sun_context: one-hot gate, one-hot line, degree / 360, padding. *)
SunDim == 80

(* The position (counted from 1) that the index i names in a tensor of   *)
(* length n: i itself from 0 to n - 1, n + i from -n to -1, and none     *)
(* (IndexError) anywhere else.                                           *)
tensor_index(i, n) ==
  IF i >= 0 /\ i < n THEN <<i + 1>>
  ELSE IF i < 0 /\ i >= 0 - n THEN <<n + i + 1>>
  ELSE <<>>

(* Whether gate_vec[gate - 1] = 1.0 or line_vec[line - 1] = 1.0 raises. *)
sun_index_error(sun_placement) ==
  \/ tensor_index(sun_placement.gate - 1, NumGates) = <<>>
  \/ tensor_index(sun_placement.line - 1, NumLines) = <<>>

(* The vector encode_sun_context returns when neither assignment raises. *)
encode_sun_context(sun_placement) ==
  LET gate_at    == tensor_index(sun_placement.gate - 1, NumGates)
      line_at    == tensor_index(sun_placement.line - 1, NumLines)
      gate_vec   == [i \in 1..NumGates |-> IF gate_at = <<i>> THEN Scale ELSE 0]
      line_vec   == [i \in 1..NumLines |-> IF line_at = <<i>> THEN Scale ELSE 0]
      degree_val == IF sun_placement.degree = <<>> THEN 0
                    ELSE (sun_placement.degree[1] * Scale) \div 360
  IN gate_vec \o line_vec \o <<degree_val>> \o Zeros(9)

(* get_awareness_masks: the gate sets of the five pooled readouts. *)
MaskNames == <<"spleen", "ajna", "solar", "heart", "mind">>

get_awareness_masks ==
  [name \in {MaskNames[i] : i \in 1..Len(MaskNames)} |->
     CASE name = "heart" -> {21, 51, 26, 40}
       [] name = "mind"  -> AWARENESS_SYSTEMS["ajna"]
       [] OTHER          -> AWARENESS_SYSTEMS[name]]

(* core.py get_channel_edges: both directions of every channel not seen  *)
(* before in either direction; seen records the direction first met.     *)
(* The loop over channels[lo] .. channels[hi], from the lists in acc:    *)
(* the first half of the range, then the second half on its result.      *)
RECURSIVE channel_edges_from(_, _, _, _)
channel_edges_from(channels, lo, hi, acc) ==
  IF lo > hi THEN acc
  ELSE IF lo = hi
  THEN LET g1 == channels[lo][1]
           g2 == channels[lo][2]
       IN IF <<g1, g2>> \notin acc.seen /\ <<g2, g1>> \notin acc.seen
          THEN [edges |-> acc.edges \o << <<g1, g2>>, <<g2, g1>> >>,
                seen  |-> acc.seen \cup {<<g1, g2>>}]
          ELSE acc
  ELSE Bind(channel_edges_from(channels, lo, (lo + hi) \div 2, acc),
            LAMBDA next : channel_edges_from(channels, ((lo + hi) \div 2) + 1, hi, next))

(* Every listed channel in both directions, with no look at seen. *)
get_channel_edges_unchecked ==
  [e \in 1..(2 * Len(CHANNELS)) |->
     IF e % 2 = 1 THEN CHANNELS[(e + 1) \div 2]
     ELSE <<CHANNELS[e \div 2][2], CHANNELS[e \div 2][1]>>]

get_channel_edges ==
  channel_edges_from(CHANNELS, 1, Len(CHANNELS), [edges |-> <<>>, seen |-> {}]).edges

(* get_edge_index: the edges with 0-indexed endpoints. *)
get_edge_index ==
  LET edges == get_channel_edges
  IN [e \in 1..Len(edges) |-> <<edges[e][1] - 1, edges[e][2] - 1>>]

(* get_edge_index when core.CHANNELS holds the table `channels`. *)
edge_index_of(channels) ==
  LET edges == channel_edges_from(channels, 1, Len(channels), [edges |-> <<>>, seen |-> {}]).edges
  IN [e \in 1..Len(edges) |-> <<edges[e][1] - 1, edges[e][2] - 1>>]

(* core.py gate_to_center: the first center, in dict order, holding the gate. *)
RECURSIVE gate_to_center_from(_, _)
gate_to_center_from(gate, i) ==
  IF i > Len(CenterNames) THEN "None"
  ELSE IF gate \in CENTERS[CenterNames[i]] THEN CenterNames[i]
  ELSE gate_to_center_from(gate, i + 1)

(* The lookup that starts at the second center. *)
gate_to_center_skip_first(gate) == gate_to_center_from(gate, 2)

gate_to_center(gate) == gate_to_center_from(gate, 1)

(* ------------------------------------------------------------------ *)
(* network.py: QuantumHDNet                                           *)
(* ------------------------------------------------------------------ *)

(* Widths of the hidden state and of the FiLM generator's hidden layer  *)
(* (128 and 64 in create_model), and the number of convolution rounds.  *)
HiddenDim == 2

FilmHidden == 2

num_layers == 3

(* Layer numbers. *)
L_input_proj == 1
L_conv_l(l) == 10 + l
L_conv_r(l) == 20 + l
L_film_1 == 30
L_film_2 == 31
L_codon_1 == 40
L_codon_2 == 41
L_attention(m) == 50 + m
L_head(m) == 60 + m

(* The learned parameters.  A parameter set p gives one amplitude to     *)
(* each group of layers (input, conv, film, codon, attention, head):     *)
(* entry (k, j) of a weight matrix is its group's amplitude or twice it, *)
(* alternating over (k, j, layer); entry k of a bias vector is 0 or      *)
(* p.bias, alternating; every LayerNorm has weight p.ln_weight and bias  *)
(* p.bias.  All fields zero is the all-zero network.                     *)
LayerAmp(p, layer) ==
  IF layer < 10 THEN p.input
  ELSE IF layer < 30 THEN p.conv
  ELSE IF layer < 40 THEN p.film
  ELSE IF layer < 50 THEN p.codon
  ELSE IF layer < 60 THEN p.attention
  ELSE p.head

Weight(p, layer, k, j) == LayerAmp(p, layer) * (1 + ((k + j + layer) % 2))

Bias(p, layer, k) == p.bias * ((k + layer) % 2)

(* The positions of the non-zero entries of v. *)
NonZero(v) == SelectSeq(Built([j \in 1..Len(v) |-> j]), LAMBDA j : v[j] # 0)

(* Row k of the weight matrix of `layer` times the vector v, whose       *)
(* non-zero entries are at the positions nz (zero terms add nothing).    *)
DotRow(p, layer, k, v, nz) ==
  SumSeq(Built([n \in 1..Len(nz) |-> Weight(p, layer, k, nz[n]) * v[nz[n]]]))

(* nn.Linear with and without bias. *)
Linear(p, layer, out_dim, v) ==
  Bind(NonZero(v), LAMBDA nz :
    Built([k \in 1..out_dim |->
      (DotRow(p, layer, k, v, nz) \div Scale) + Bias(p, layer, k)]))

LinearNoBias(p, layer, out_dim, v) ==
  Bind(NonZero(v), LAMBDA nz :
    Built([k \in 1..out_dim |-> DotRow(p, layer, k, v, nz) \div Scale]))

ReluVec(v) == Built([k \in 1..Len(v) |-> Relu(v[k])])

AddVec(a, b) == Built([k \in 1..Len(a) |-> a[k] + b[k]])

(* nn.LayerNorm over the hidden width: biased variance, eps = 1e-5. *)
LayerNorm(p, v) ==
  LET n    == Len(v)
      mean == SumSeq(v) \div n
      d    == Built([k \in 1..n |-> v[k] - mean])
      var  == SumSeq(Built([k \in 1..n |-> d[k] * d[k]])) \div n
      sd   == ISqrt(var + (Scale * Scale) \div 100000)
  IN Built([k \in 1..n |->
        (IF d[k] = 0 THEN 0 ELSE Mul(Div(d[k], sd), p.ln_weight)) + p.bias])

(* The sources of the edges that end in node i (0-indexed), with         *)
(* multiplicity, and the mean of their hidden states (zero if none).     *)
Sources(edge_index, i) ==
  Bind(SelectSeq(edge_index, LAMBDA e : e[2] = i),
       LAMBDA into : Built([n \in 1..Len(into) |-> into[n][1]]))

MeanOver(h, srcs) ==
  IF srcs = <<>> THEN Zeros(HiddenDim)
  ELSE Built([k \in 1..HiddenDim |->
          SumSeq(Built([n \in 1..Len(srcs) |-> h[srcs[n] + 1][k]])) \div Len(srcs)])

(* SAGEConv with mean aggregation: lin_l(mean of neighbours) + lin_r(self); *)
(* sources[i] lists the sources of the edges into gate i.                   *)
SAGEConv(p, l, h, sources) ==
  Built([i \in 1..NumGates |->
     AddVec(Linear(p, L_conv_l(l), HiddenDim, MeanOver(h, sources[i])),
            LinearNoBias(p, L_conv_r(l), HiddenDim, h[i]))])

(* One round: convolution, normalisation, rectification, residual. *)
ConvRound(p, l, h, sources) ==
  Bind(SAGEConv(p, l, h, sources),
       LAMBDA h_new :
         Built([i \in 1..NumGates |-> AddVec(ReluVec(LayerNorm(p, h_new[i])), h[i])]))

RECURSIVE ConvRounds(_, _, _, _)
ConvRounds(p, l, h, sources) ==
  IF l > num_layers THEN h
  ELSE Bind(ConvRound(p, l, h, sources),
            LAMBDA h_next : ConvRounds(p, l + 1, h_next, sources))

(* SunFiLM.forward in evaluation mode (dropout is the identity):         *)
(* gamma * x + beta, with (gamma, beta) the two halves of mlp(sun_vec).  *)
SunFiLM(p, h, sun_vec) ==
  Bind(Linear(p, L_film_2, 2 * HiddenDim,
              ReluVec(Linear(p, L_film_1, FilmHidden, sun_vec))),
       LAMBDA params :
         LET gamma == SubSeq(params, 1, HiddenDim)
             beta  == SubSeq(params, HiddenDim + 1, 2 * HiddenDim)
         IN Built([i \in 1..NumGates |->
               Built([k \in 1..HiddenDim |-> Mul(gamma[k], h[i][k]) + beta[k]])]))

(* codon_head: Linear, ReLU, Linear to one logit. *)
codon_head(p, v) ==
  Linear(p, L_codon_2, 1,
         ReluVec(Linear(p, L_codon_1, HiddenDim \div 2, v)))[1]

(* The gates of a mask in index order. *)
Masked(mask) == SelectSeq(Built([g \in 1..NumGates |-> g]), LAMBDA g : g \in mask)

(* The largest element of a non-empty sequence. *)
MaxOf(s) == CHOOSE t \in {s[n] : n \in 1..Len(s)} : \A n \in 1..Len(s) : s[n] <= t

(* torch.softmax over a non-empty sequence of logits. *)
Softmax(logits) ==
  Bind(MaxOf(logits), LAMBDA top :
    Bind(Built([n \in 1..Len(logits) |-> Exp(logits[n] - top)]), LAMBDA e :
      Bind(SumSeq(e), LAMBDA denom :
        Built([n \in 1..Len(e) |-> Div(e[n], denom)]))))

(* AwarenessPooling.forward for mask number m: softmax attention over    *)
(* the masked gates only; the zero vector for an empty mask.             *)
AwarenessPooling(p, m, node_features, mask) ==
  Bind(Masked(mask), LAMBDA masked :
    IF masked = <<>> THEN Zeros(HiddenDim)
    ELSE Bind(Softmax(Built([n \in 1..Len(masked) |->
                 Linear(p, L_attention(m), 1, node_features[masked[n]])[1]])),
              LAMBDA w :
                Built([k \in 1..HiddenDim |->
                  SumSeq(Built([n \in 1..Len(masked) |->
                                  Mul(node_features[masked[n]][k], w[n])]))])))

(* The number of a readout in MaskNames. *)
MaskNumber(name) == CHOOSE i \in 1..Len(MaskNames) : MaskNames[i] = name

(* QuantumHDNet.forward: per-gate scores and the five readout scores. *)
forward(p, x, edge_index, sun_context, masks) ==
  Bind(Built([i \in 1..NumGates |->
                ReluVec(Linear(p, L_input_proj, HiddenDim, x[i]))]),
       LAMBDA h0 :
    Bind(ConvRounds(p, 1, h0, Built([i \in 1..NumGates |-> Sources(edge_index, i - 1)])),
         LAMBDA h :
      Bind(SunFiLM(p, h, sun_context), LAMBDA h_observed :
        [codon_scores |->
           Built([i \in 1..NumGates |-> Sigmoid(codon_head(p, h_observed[i]))]),
         awareness |->
           [name \in DOMAIN masks |->
              Sigmoid(Linear(p, L_head(MaskNumber(name)), 1,
                             AwarenessPooling(p, MaskNumber(name), h_observed,
                                              masks[name]))[1])]])))

(* ------------------------------------------------------------------ *)
(* consciousness.py: the nine-field interpretation layer              *)
(* ------------------------------------------------------------------ *)

(* core.py get_field_gates: the union of the field's center sets. *)
FieldGateSet(field_name) ==
  UNION {CENTERS[CONSCIOUSNESS_FIELDS[field_name].centers[i]] :
           i \in 1..Len(CONSCIOUSNESS_FIELDS[field_name].centers)}

(* list(self.gates): the order in which CPython iterates the set that    *)
(* get_field_gates builds (hash-table order of small integers); it is    *)
(* the order of gate_indices and of the field's activation tensor.       *)
get_field_gates(field_name) ==
  CASE field_name = "Mind"   -> <<64, 4, 11, 43, 47, 17, 24, 61, 63>>
    [] field_name = "Heart"  -> <<36, 37, 6, 40, 49, 51, 21, 22, 55, 26, 30>>
    [] field_name = "Body"   -> <<3, 5, 9, 14, 18, 19, 27, 28, 29, 32, 34, 38, 39, 41, 42,
                                  44, 48, 50, 52, 53, 54, 57, 58, 59, 60>>
    [] field_name = "Soul"   -> <<1, 2, 7, 10, 13, 46, 15, 25>>
    [] field_name = "Spirit" -> <<33, 35, 8, 12, 45, 16, 20, 23, 56, 62, 31>>
    [] field_name = "Shadow" -> <<38, 39, 41, 19, 52, 53, 54, 58, 60>>
    [] field_name = "Higher" -> <<64, 61, 63>>
    [] field_name = "Lower"  -> <<34, 3, 5, 38, 39, 9, 42, 59, 41, 14, 19, 52, 53, 54, 58,
                                  27, 60, 29>>
    [] field_name = "Core"   -> <<1, 2, 7, 40, 10, 13, 46, 15, 51, 21, 25, 26>>

(* The first k positions, whatever the values. *)
topk_first_positions(values, k, ties, taken) == [i \in 1..k |-> i]

(* torch.topk(values, k): the positions of the k largest values, largest *)
(* first.  The order among equal values is the library's: `ties` names   *)
(* the build's choice, the lowest position first or the highest first.   *)
RECURSIVE topk(_, _, _, _)
topk(values, k, ties, taken) ==
  IF k = 0 THEN <<>>
  ELSE LET rest == (1..Len(values)) \ taken
           best == {i \in rest : \A j \in rest : values[j] <= values[i]}
           pick == IF ties = "first"
                   THEN CHOOSE i \in best : \A j \in best : i <= j
                   ELSE CHOOSE i \in best : \A j \in best : j <= i
       IN <<pick>> \o topk(values, k - 1, ties, taken \cup {pick})

(* Tensor.mean and Tensor.std (unbiased) of a sequence of scores. *)
Mean(values) == SumSeq(values) \div Len(values)

(* The population standard deviation (divisor n). *)
StdBiased(values) ==
  LET n  == Len(values)
      s1 == SumSeq(values)
      s2 == SumSeq(Built([i \in 1..n |-> values[i] * values[i]]))
  IN ISqrt((n * s2 - s1 * s1) \div (n * n))

Std(values) ==
  LET n  == Len(values)
      s1 == SumSeq(values)
      s2 == SumSeq(Built([i \in 1..n |-> values[i] * values[i]]))
  IN ISqrt((n * s2 - s1 * s1) \div (n * (n - 1)))

(* ConsciousnessField._compute_coherence *)
compute_coherence(activations) ==
  IF Len(activations) < 2 THEN Scale
  ELSE Div(Scale, Scale + Std(activations))

(* The descriptor with the two thresholds tried in the wrong order. *)
coherence_desc_moderate_first(coherence) ==
  IF coherence > (4 * Scale) \div 10 THEN "moderate"
  ELSE IF coherence > (7 * Scale) \div 10 THEN "high"
  ELSE "low"

(* The coherence descriptor of _generate_narrative_seed. *)
coherence_desc(coherence) ==
  IF coherence > (7 * Scale) \div 10 THEN "high"
  ELSE IF coherence > (4 * Scale) \div 10 THEN "moderate"
  ELSE "low"

(* "{:.1%}": a fixed-point number as tenths of a percent, rounded. *)
FormatPct(v) == (v * 1000 + Scale \div 2) \div Scale

(* ConsciousnessField._generate_narrative_seed.  The seed string is kept *)
(* as its parts: the field's template, the formatted activation, the     *)
(* gate list, the descriptor, and the awareness suffix when there is an  *)
(* awareness score.                                                      *)
generate_narrative_seed(name, activation, gates, awareness_score, coherence) ==
  [template       |-> name,
   activation     |-> FormatPct(activation),
   gates_str      |-> gates,
   coherence_desc |-> coherence_desc(coherence),
   awareness      |-> IF awareness_score # <<>>
                      THEN <<[name  |-> CONSCIOUSNESS_FIELDS[name].awareness,
                              score |-> FormatPct(awareness_score[1])]>>
                      ELSE <<>>]

(* ConsciousnessField.collapse_to_state for the field whose gate list    *)
(* is `gates`. *)
collapse_to_state(name, gates, codon_scores, awareness, ties) ==
  Bind(Built([i \in 1..Len(gates) |-> codon_scores[gates[i]]]),
       LAMBDA field_activations :
    LET overall_activation == Mean(field_activations)
        top_k           == Min(3, Len(gates))
        top_idx         == topk(field_activations, top_k, ties, {})
        dominant_gates  == Built([n \in 1..top_k |-> gates[top_idx[n]]])
        awareness_type  == CONSCIOUSNESS_FIELDS[name].awareness
        awareness_score == IF awareness_type # "None" /\ awareness_type \in DOMAIN awareness
                           THEN <<awareness[awareness_type]>> ELSE <<>>
        coherence       == compute_coherence(field_activations)
    IN [field_name     |-> name,
        activation     |-> overall_activation,
        dominant_gates |-> dominant_gates,
        awareness_type |-> awareness_type,
        coherence      |-> coherence,
        resonance      |-> <<>>,
        narrative_seed |-> generate_narrative_seed(name, overall_activation,
                              dominant_gates, awareness_score, coherence)])

(* A dict with key k set to v. *)
Put(d, k, v) == [x \in (DOMAIN d) \cup {k} |-> IF x = k THEN v ELSE d[x]]

(* The resonance of one pair of states in _compute_resonances. *)
pair_resonance(state1, state2) ==
  LET gates1  == {state1.dominant_gates[i] : i \in 1..Len(state1.dominant_gates)}
      gates2  == {state2.dominant_gates[i] : i \in 1..Len(state2.dominant_gates)}
      overlap == IF gates1 # {} \/ gates2 # {}
                 THEN Div(Cardinality(gates1 \cap gates2), Cardinality(gates1 \cup gates2))
                 ELSE 0
      coherence_diff == Abs(state1.coherence - state2.coherence)
      coherence_sim  == Scale - coherence_diff
  IN (overlap + coherence_sim) \div 2

(* The resonance stored under the first field only. *)
store_resonance_one_way(states, name1, name2, resonance) ==
  [states EXCEPT ![name1].resonance = Put(@, name2, resonance)]

(* "Store bidirectionally". *)
store_resonance(states, name1, name2, resonance) ==
  [states EXCEPT ![name1].resonance = Put(@, name2, resonance),
                 ![name2].resonance = Put(@, name1, resonance)]

(* NineBodyConsciousness._compute_resonances: every pair i < j of        *)
(* field_names, in the order of the two loops (i over the names, j over  *)
(* the names after i).  The visits pairs[lo] .. pairs[hi] are made one   *)
(* after the other: the first half of the range, then the second half on *)
(* its result.                                                           *)
compute_resonances(states, field_names) ==
  LET n == Len(field_names)
      RECURSIVE between(_, _, _, _)
      between(st, pairs, lo, hi) ==
        IF lo > hi THEN st
        ELSE IF lo = hi
        THEN store_resonance(st, field_names[pairs[lo][1]], field_names[pairs[lo][2]],
                             pair_resonance(st[field_names[pairs[lo][1]]],
                                            st[field_names[pairs[lo][2]]]))
        ELSE Bind(between(st, pairs, lo, (lo + hi) \div 2),
                  LAMBDA next : between(next, pairs, ((lo + hi) \div 2) + 1, hi))
  IN Bind(SelectSeq([k \in 1..(n * n) |-> <<((k - 1) \div n) + 1, ((k - 1) % n) + 1>>],
                    LAMBDA pr : pr[1] < pr[2]),
          LAMBDA pairs : between(states, pairs, 1, Len(pairs)))

(* NineBodyConsciousness.collapse_all_fields over the field table. *)
collapse_all_fields(fields, codon_scores, awareness, ties) ==
  Bind([f \in DOMAIN fields |->
          collapse_to_state(f, fields[f], codon_scores, awareness, ties)],
       LAMBDA states :
         compute_resonances(states,
                            SelectSeq(FieldNames, LAMBDA f : f \in DOMAIN fields)))

(* _combine_seeds: the label, then the seeds joined by " | ". *)
combine_seeds(seeds, label) == [label |-> label, seeds |-> seeds]

(* The seeds of the fields of a bundle that are present in states. *)
bundle_seeds(states, bundle) ==
  LET present == SelectSeq(bundle, LAMBDA f : f \in DOMAIN states)
  IN Built([i \in 1..Len(present) |-> states[present[i]].narrative_seed])

(* The synthesis with Shadow bundled with the axis instead of with the   *)
(* survival fields.                                                      *)
synthesize_narrative_seeds_shadow_in_core(states) ==
  [spleen |-> combine_seeds(bundle_seeds(states, <<"Body", "Lower">>),
                            "Survival consciousness"),
   ajna   |-> combine_seeds(bundle_seeds(states, <<"Mind", "Higher">>),
                            "Mental consciousness"),
   solar  |-> combine_seeds(bundle_seeds(states, <<"Heart", "Spirit">>),
                            "Emotional consciousness"),
   core   |-> combine_seeds(bundle_seeds(states, <<"Soul", "Core", "Shadow">>),
                            "Core identity")]

(* NineBodyConsciousness.synthesize_narrative_seeds *)
synthesize_narrative_seeds(states) ==
  [spleen |-> combine_seeds(bundle_seeds(states, <<"Body", "Lower", "Shadow">>),
                            "Survival consciousness"),
   ajna   |-> combine_seeds(bundle_seeds(states, <<"Mind", "Higher">>),
                            "Mental consciousness"),
   solar  |-> combine_seeds(bundle_seeds(states, <<"Heart", "Spirit">>),
                            "Emotional consciousness"),
   core   |-> combine_seeds(bundle_seeds(states, <<"Soul", "Core">>),
                            "Core identity")]

(* initialize_from_quantum_state: one field per entry of                 *)
(* CONSCIOUSNESS_FIELDS, each with its gate list.                        *)
initialize_from_quantum_state ==
  [f \in DOMAIN CONSCIOUSNESS_FIELDS |-> get_field_gates(f)]

(* ------------------------------------------------------------------ *)
(* features.py create_intention_perturbation, engine.py               *)
(* ------------------------------------------------------------------ *)

(* The perturbation with the boost on every gate, active or not. *)
create_intention_perturbation_boost_all(question, base_placements, noise) ==
  Built([g \in Gates |-> noise[g] + (3 * Scale) \div 10])

(* create_intention_perturbation: the random term torch.randn(64) * 0.1  *)
(* (here the vector noise), plus 0.3 on every gate whose encoded row     *)
(* sums to more than zero; the question is not read.                     *)
create_intention_perturbation(question, base_placements, noise) ==
  Bind(encode_placements(base_placements), LAMBDA base_features :
    Built([g \in Gates |->
       noise[g] + (IF SumSeq(base_features[g]) > 0 THEN (3 * Scale) \div 10 ELSE 0)]))

(* node_features + perturbation.unsqueeze(1) * 0.1 *)
add_perturbation(node_features, perturbation) ==
  Built([g \in Gates |->
     Built([j \in 1..Len(node_features[g]) |->
        node_features[g][j] + perturbation[g] \div 10])])

(* Steps 1 and 2 of query: the encoded chart, the perturbation if one is *)
(* asked for, and the node features handed to the network.               *)
step_node_features(placements, question, use_intention_perturbation, noise) ==
  Bind(encode_placements(placements), LAMBDA base_features :
    IF use_intention_perturbation
    THEN Bind(create_intention_perturbation(question, placements, noise),
              LAMBDA perturbation :
                [perturbation  |-> <<perturbation>>,
                 node_features |-> add_perturbation(base_features, perturbation)])
    ELSE [perturbation |-> <<>>, node_features |-> base_features])

(* VirtualConsciousnessEngine._find_body_sun *)
find_body_sun(placements) ==
  LET suns == SelectSeq(placements, LAMBDA p : p.planet = "Sun" /\ p.stream = "body")
  IN IF suns = <<>> THEN <<>> ELSE <<Head(suns)>>

(* The mean of the field coherences alone. *)
compute_system_coherence_fields_only(field_states) ==
  IF DOMAIN field_states = {} THEN 0
  ELSE LET names == SelectSeq(FieldNames, LAMBDA f : f \in DOMAIN field_states)
       IN SumSeq(Built([i \in 1..Len(names) |-> field_states[names[i]].coherence]))
            \div Len(names)

(* VirtualConsciousnessEngine._compute_system_coherence *)
compute_system_coherence(field_states) ==
  IF DOMAIN field_states = {} THEN 0
  ELSE
    LET names       == SelectSeq(FieldNames, LAMBDA f : f \in DOMAIN field_states)
        coherences  == Built([i \in 1..Len(names) |-> field_states[names[i]].coherence])
        avg_coherence == SumSeq(coherences) \div Len(coherences)
        per_state   == Built([i \in 1..Len(names) |->
                         LET r     == field_states[names[i]].resonance
                             other == SelectSeq(names, LAMBDA f : f \in DOMAIN r)
                         IN [sum   |-> SumSeq(Built([n \in 1..Len(other) |-> r[other[n]]])),
                             count |-> Len(other)]])
        total       == SumSeq(Built([i \in 1..Len(names) |-> per_state[i].sum]))
        count       == SumSeq(Built([i \in 1..Len(names) |-> per_state[i].count]))
        avg_resonance == IF count > 0 THEN total \div count ELSE 0
    IN (avg_coherence + avg_resonance) \div 2

(* The observer vector whatever the engine holds: the vector of a Sun on *)
(* gate 1, line 1 where there is neither an override nor a body Sun.     *)
sun_context_default_sun(observer_state, sun) ==
  IF observer_state # <<>>
  THEN encode_sun_context(observer_state[1].sun_placement)
  ELSE encode_sun_context(IF sun # <<>> THEN sun[1]
                          ELSE [planet |-> "Sun", stream |-> "body", gate |-> 1,
                                line |-> 1, degree |-> <<>>])

(* Step 3 of query: the observer vector, from the override if one is     *)
(* given, else from the engine's body Sun, else torch.zeros(80).         *)
sun_context(observer_state, sun) ==
  IF observer_state # <<>>
  THEN encode_sun_context(observer_state[1].sun_placement)
  ELSE IF sun # <<>> THEN encode_sun_context(sun[1])
  ELSE Zeros(SunDim)

(* Steps 1 to 4 of query: the encoded chart, perturbed if asked, and the *)
(* forward pass of the network under the observer vector.                *)
quantum_pass(p, placements, sun, edges, masks, question, observer_state, use_intention_perturbation, noise) ==
  forward(p, step_node_features(placements, question, use_intention_perturbation, noise).node_features,
          edges, sun_context(observer_state, sun), masks)

(* Steps 7 to 9 of query: the seeds, the coherence level and the         *)
(* response object.                                                      *)
package_response(question, out, field_states, sun) ==
  [question          |-> question,
   codon_activations |-> out.codon_scores,
   awareness_scores  |-> out.awareness,
   field_states      |-> field_states,
   narrative_seeds   |-> synthesize_narrative_seeds(field_states),
   coherence_level   |-> compute_system_coherence(field_states),
   observer_context  |->
     [sun_gate |-> IF sun # <<>> THEN <<sun[1].gate>> ELSE <<>>,
      sun_line |-> IF sun # <<>> THEN <<sun[1].line>> ELSE <<>>]]

(* VirtualConsciousnessEngine.query, steps 1 to 9, on an engine with the *)
(* given placements, body Sun, edges, masks and field table; `fields` is *)
(* the table after step 5.                                               *)
query_response(p, ties, placements, sun, edges, masks, fields, question, observer_state, use_intention_perturbation, noise) ==
  Bind(quantum_pass(p, placements, sun, edges, masks, question, observer_state,
                    use_intention_perturbation, noise),
       LAMBDA out :
         Bind(collapse_all_fields(fields, out.codon_scores, out.awareness, ties),
              LAMBDA field_states : package_response(question, out, field_states, sun)))

(* ------------------------------------------------------------------ *)
(* State                                                              *)
(* ------------------------------------------------------------------ *)

VARIABLES
  params,                    \* the parameters of the engine's network, fixed at construction
  topk_ties,                 \* the library's order among equal values in torch.topk
  birth_placements,          \* VirtualConsciousnessEngine.birth_placements
  body_sun,                  \* VirtualConsciousnessEngine.body_sun
  awareness_masks,           \* VirtualConsciousnessEngine.awareness_masks
  edge_index,                \* VirtualConsciousnessEngine.edge_index
  consciousness_initialized, \* VirtualConsciousnessEngine._consciousness_initialized
  nine_body_fields,          \* VirtualConsciousnessEngine.nine_body.fields
  engine_log,                \* the calls of query made so far, each with its response
  natal_placements,          \* AdjustableConsciousness.natal_placements
  config,                    \* AdjustableConsciousness.config
  current_transits,          \* AdjustableConsciousness.current_transits
  current_progressions,      \* AdjustableConsciousness.current_progressions
  query_history,             \* AdjustableConsciousness.query_history
  adj_trace,                 \* the last AdjustableConsciousness.query: what it built and got
  compare_call,              \* the last compare_configurations: its arguments, queries, result
  api_focus,                 \* VirtualConsciousnessAPI: which object consciousness.config is
  focus_presets,             \* VirtualConsciousnessAPI.focus_presets
  api_call,                  \* the last VirtualConsciousnessAPI.query: its argument and result
  adj_steps,                 \* the number of calls made on the AdjustableConsciousness
  coh_scores,                \* the argument of a call of _compute_coherence
  coh_result,                \* what that call returned
  channel_table,             \* core.CHANNELS as the module holds it
  channels_pc,               \* how far the table got: "loaded", "constructed", "queried"
  channel_edge_index,        \* the edge_index of the encoder built on that table
  placement_pair,            \* two Placement objects a caller holds
  placement_ops,             \* what == and hash gave on them, and what a caller assigned
  thread_pc,                 \* where each thread is in its call of query
  thread_local               \* the locals of each thread's call of query

engine_vars == <<params, topk_ties, birth_placements, body_sun, awareness_masks, edge_index,
                 consciousness_initialized, nine_body_fields, engine_log>>

adjustable_vars == <<natal_placements, config, current_transits, current_progressions,
                     query_history, adj_trace, compare_call, adj_steps,
                     api_focus, focus_presets, api_call>>

coherence_vars == <<coh_scores, coh_result>>

core_vars == <<channel_table, channels_pc, channel_edge_index, placement_pair, placement_ops>>

thread_vars == <<thread_pc, thread_local>>

vars == <<engine_vars, adjustable_vars, coherence_vars, core_vars, thread_vars>>

(* ------------------------------------------------------------------ *)
(* Inputs                                                             *)
(* ------------------------------------------------------------------ *)

Placement(planet, stream, gate, line, degree) ==
  [planet |-> planet, stream |-> stream, gate |-> gate, line |-> line, degree |-> degree]

(* The body stream of demo.py's example chart: 13 placements on 13 gates. *)
DemoChart ==
  << Placement("Sun", "body", 46, 3, <<135>>),     Placement("Earth", "body", 25, 3, <<315>>),
     Placement("Moon", "body", 18, 5, <<221>>),    Placement("Mercury", "body", 57, 2, <<142>>),
     Placement("Venus", "body", 44, 4, <<156>>),   Placement("Mars", "body", 21, 1, <<98>>),
     Placement("Jupiter", "body", 32, 6, <<245>>), Placement("Saturn", "body", 50, 2, <<189>>),
     Placement("Uranus", "body", 13, 3, <<67>>),   Placement("Neptune", "body", 36, 5, <<298>>),
     Placement("Pluto", "body", 60, 1, <<312>>),   Placement("North Node", "body", 41, 4, <<178>>),
     Placement("South Node", "body", 31, 4, <<358>>) >>

(* A chart with no body Sun, an unknown planet alone on a gate, and two  *)
(* placements sharing a gate.                                            *)
SparseChart ==
  << Placement("Sun", "design", 17, 2, <<47>>),  Placement("Chiron", "body", 64, 5, <<>>),
     Placement("Moon", "body", 18, 5, <<221>>),  Placement("Earth", "design", 18, 2, <<227>>),
     Placement("Chiron", "design", 18, 2, <<>>) >>

Charts == {DemoChart, SparseChart}

ZeroParams ==
  [input |-> 0, conv |-> 0, film |-> 0, codon |-> 0, attention |-> 0, head |-> 0,
   bias |-> 0, ln_weight |-> 0]

ParamSets ==
  { ZeroParams,
    [input |-> Scale \div 2, conv |-> Scale \div 5, film |-> (3 * Scale) \div 10,
     codon |-> Scale \div 5, attention |-> Scale \div 2, head |-> (3 * Scale) \div 10,
     bias |-> Scale \div 10, ln_weight |-> Scale \div 5] }

Questions == {"what is my purpose", "test"}

(* Observer overrides: none, or a Sun placement other than the chart's. *)
ObserverStates == {<<>>, <<[sun_placement |-> Placement("Sun", "body", 1, 1, <<>>)]>>}

(* What torch.randn * 0.1 draws: NoiseAmp on one gate, zero elsewhere.   *)
NoiseGates == {18}

NoiseAmp == Scale \div 10

Noises == {[g \in Gates |-> IF g = n THEN NoiseAmp ELSE 0] : n \in NoiseGates}

MaxQueries == 2

(* ------------------------------------------------------------------ *)
(* engine.py: VirtualConsciousnessEngine                              *)
(* ------------------------------------------------------------------ *)

(* VirtualConsciousnessEngine.__init__ on the chart `placements`. *)
engine_init(placements) ==
  /\ birth_placements = placements
  /\ body_sun = find_body_sun(placements)
  /\ awareness_masks = get_awareness_masks
  /\ edge_index = get_edge_index
  /\ consciousness_initialized = FALSE
  /\ nine_body_fields = <<>>
  /\ engine_log = {}

(* ConsciousnessConfiguration(): the default configuration. *)
ConsciousnessConfiguration ==
  [primary_chart_system  |-> "sidereal",
   allow_transits        |-> TRUE,
   transit_weight        |-> (3 * Scale) \div 10,
   allow_progressions    |-> TRUE,
   progression_weight    |-> (2 * Scale) \div 10,
   awareness_sensitivity |-> [s \in {"spleen", "ajna", "solar"} |-> Scale],
   field_emphasis        |-> [f \in {FieldNames[i] : i \in 1..Len(FieldNames)} |-> Scale],
   coherence_threshold   |-> Scale \div 2]

(* No VirtualConsciousnessAPI wraps the instance: its configuration is   *)
(* its own object.                                                       *)
NoAPI == api_focus = "own" /\ focus_presets = <<>> /\ api_call = <<>>

(* No AdjustableConsciousness has been built. *)
NoAdjustable ==
  /\ NoAPI
  /\ natal_placements = <<>>
  /\ config = ConsciousnessConfiguration
  /\ current_transits = <<>>
  /\ current_progressions = <<>>
  /\ query_history = <<>>
  /\ adj_trace = <<>>
  /\ compare_call = <<>>
  /\ adj_steps = 0

(* No call of _compute_coherence on its own. *)
NoCoherenceCall == coh_scores = <<>> /\ coh_result = <<>>

(* The shipped channel table, never handed to a second encoder, and no   *)
(* placements compared.                                                  *)
NoCoreCall ==
  /\ channel_table = CHANNELS
  /\ channels_pc = "loaded"
  /\ channel_edge_index = <<>>
  /\ placement_pair = <<>>
  /\ placement_ops = <<>>

(* No thread calls query. *)
NoThreads == thread_pc = <<>> /\ thread_local = <<>>

(* An engine built on a chart, with the parameters and the library given. *)
Init ==
  /\ params \in ParamSets
  /\ topk_ties \in {"first", "last"}
  /\ \E placements \in Charts : engine_init(placements)
  /\ NoAdjustable
  /\ NoCoherenceCall
  /\ NoCoreCall
  /\ NoThreads

(* query with the field table filled only after the collapse: the first *)
(* call collapses an empty table.                                        *)
query_initialized_late(question, observer_state, use_intention_perturbation, noise) ==
  /\ Cardinality(engine_log) < MaxQueries
  /\ nine_body_fields' = initialize_from_quantum_state
  /\ consciousness_initialized' = TRUE
  /\ engine_log' = engine_log \cup
       {[observer_state |-> observer_state,
         use_intention_perturbation |-> use_intention_perturbation,
         sun_context |-> sun_context(observer_state, body_sun),
         features |-> step_node_features(birth_placements, question,
                        use_intention_perturbation, noise),
         response |-> query_response(params, topk_ties, birth_placements, body_sun,
                        edge_index, awareness_masks, nine_body_fields, question,
                        observer_state, use_intention_perturbation, noise)]}
  /\ UNCHANGED <<params, topk_ties, birth_placements, body_sun, awareness_masks, edge_index>>
  /\ UNCHANGED <<adjustable_vars, coherence_vars, core_vars, thread_vars>>

(* query(question, observer_state, use_intention_perturbation); noise is *)
(* what torch.randn draws when the perturbation is used.                 *)
query(question, observer_state, use_intention_perturbation, noise) ==
  /\ Cardinality(engine_log) < MaxQueries
  /\ LET fields == IF consciousness_initialized THEN nine_body_fields
                   ELSE initialize_from_quantum_state
     IN /\ nine_body_fields' = fields
        /\ consciousness_initialized' = TRUE
        /\ engine_log' = engine_log \cup
             {[observer_state |-> observer_state,
               use_intention_perturbation |-> use_intention_perturbation,
               sun_context |-> sun_context(observer_state, body_sun),
               features |-> step_node_features(birth_placements, question,
                              use_intention_perturbation, noise),
               response |-> query_response(params, topk_ties, birth_placements, body_sun,
                              edge_index, awareness_masks, fields, question,
                              observer_state, use_intention_perturbation, noise)]}
  /\ UNCHANGED <<params, topk_ties, birth_placements, body_sun, awareness_masks, edge_index>>
  /\ UNCHANGED <<adjustable_vars, coherence_vars, core_vars, thread_vars>>

QueryPlain ==
  \E question \in Questions, observer_state \in ObserverStates :
    query(question, observer_state, FALSE, Zeros(NumGates))

QueryPerturbed ==
  \E question \in Questions, observer_state \in ObserverStates, noise \in Noises :
    query(question, observer_state, TRUE, noise)

Next == QueryPlain \/ QueryPerturbed

Spec == Init /\ [][Next]_vars

(* ------------------------------------------------------------------ *)
(* adjustable.py: AdjustableConsciousness                             *)
(* ------------------------------------------------------------------ *)

(* Transit lists: one with a second body Sun on the gate of DemoChart's  *)
(* Sun and a planet on a gate no chart uses, one with an unknown planet. *)
TransitLists ==
  { << Placement("Sun", "body", 46, 1, <<>>), Placement("Mars", "design", 3, 4, <<>>) >>,
    << Placement("Chiron", "body", 5, 2, <<>>) >> }

ProgressionLists == { << Placement("Moon", "body", 25, 6, <<>>) >> }

(* Sensitivities and emphases: above one and below zero. *)
Sensitivities == {5 * Scale, 0 - Scale}

Emphases == {2 * Scale}

(* A configured name and a name no configuration holds. *)
SystemNames == {"spleen", "mind"}

EmphasisNames == {"Mind", "Void"}

IntentionStrengths == {0, Scale}

(* The strengths of demo_intention_strength: 0.0, 0.5, 1.0, 1.5, 2.0. *)
DemoStrengths == {0, Scale \div 2, Scale, (3 * Scale) \div 2, 2 * Scale}

MaxSteps == 2

(* AdjustableConsciousness.__init__ with the default configuration; the  *)
(* base engine is built on the natal chart, and no method runs its       *)
(* network, whose parameters are left at zero here.                      *)
InitAdjustable ==
  /\ params = ZeroParams
  /\ topk_ties \in {"first", "last"}
  /\ natal_placements \in Charts
  /\ engine_init(natal_placements)
  /\ config = ConsciousnessConfiguration
  /\ current_transits = <<>>
  /\ current_progressions = <<>>
  /\ query_history = <<>>
  /\ adj_trace = <<>>
  /\ compare_call = <<>>
  /\ NoAPI
  /\ adj_steps = 0
  /\ NoCoherenceCall
  /\ NoCoreCall
  /\ NoThreads

(* What every call leaves alone, and the count of calls. *)
adjustable_step ==
  /\ adj_steps < MaxSteps
  /\ adj_steps' = adj_steps + 1
  /\ UNCHANGED <<engine_vars, coherence_vars, core_vars, thread_vars, natal_placements>>
  /\ UNCHANGED <<api_focus, focus_presets, api_call>>

add_transits(transit_placements) ==
  /\ adjustable_step
  /\ current_transits' = <<transit_placements>>
  /\ UNCHANGED <<config, current_progressions, query_history, adj_trace, compare_call>>

remove_transits ==
  /\ adjustable_step
  /\ current_transits' = <<>>
  /\ UNCHANGED <<config, current_progressions, query_history, adj_trace, compare_call>>

add_progressions(progression_placements) ==
  /\ adjustable_step
  /\ current_progressions' = <<progression_placements>>
  /\ UNCHANGED <<config, current_transits, query_history, adj_trace, compare_call>>

remove_progressions ==
  /\ adjustable_step
  /\ current_progressions' = <<>>
  /\ UNCHANGED <<config, current_transits, query_history, adj_trace, compare_call>>

(* The assignment without the membership test: the name becomes a key. *)
adjust_awareness_sensitivity_any_name(system, sensitivity) ==
  /\ adjustable_step
  /\ config' = [config EXCEPT !.awareness_sensitivity =
                  [s \in DOMAIN config.awareness_sensitivity \cup {system} |->
                     IF s = system THEN sensitivity ELSE config.awareness_sensitivity[s]]]
  /\ UNCHANGED <<current_transits, current_progressions, query_history, adj_trace, compare_call>>

adjust_awareness_sensitivity(system, sensitivity) ==
  /\ adjustable_step
  /\ config' = IF system \in DOMAIN config.awareness_sensitivity
               THEN [config EXCEPT !.awareness_sensitivity[system] = sensitivity]
               ELSE config
  /\ UNCHANGED <<current_transits, current_progressions, query_history, adj_trace, compare_call>>

(* emphasize_field on a table that the history's snapshots share with    *)
(* the configuration: the entries that hold the name show the new value. *)
emphasize_field_through_snapshots(field_name, emphasis) ==
  /\ adjustable_step
  /\ config' = IF field_name \in DOMAIN config.field_emphasis
               THEN [config EXCEPT !.field_emphasis[field_name] = emphasis]
               ELSE config
  /\ query_history' =
       [i \in 1..Len(query_history) |->
          IF field_name \in DOMAIN query_history[i].config.field_emphasis
          THEN [query_history[i] EXCEPT !.config.field_emphasis[field_name] = emphasis]
          ELSE query_history[i]]
  /\ UNCHANGED <<current_transits, current_progressions, adj_trace, compare_call>>

emphasize_field(field_name, emphasis) ==
  /\ adjustable_step
  /\ config' = IF field_name \in DOMAIN config.field_emphasis
               THEN [config EXCEPT !.field_emphasis[field_name] = emphasis]
               ELSE config
  /\ UNCHANGED <<current_transits, current_progressions, query_history, adj_trace, compare_call>>

(* The overlay appended whenever one is stored, wanted or not. *)
overlay_whenever_stored(use, stored) == IF stored # <<>> THEN stored[1] ELSE <<>>

(* The overlay a query appends: the stored list if it is wanted, is not  *)
(* None and is not empty.                                                *)
overlay(use, stored) == IF use /\ stored # <<>> THEN stored[1] ELSE <<>>

(* _build_composite_placements *)
build_composite_placements(natal, transits, progressions, use_transits, use_progressions) ==
  natal \o overlay(use_transits, transits) \o overlay(use_progressions, progressions)

(* The adjustment without the clamp. *)
apply_awareness_adjustments_unclamped(cfg, response) ==
  [response EXCEPT !.awareness_scores =
     [system \in DOMAIN response.awareness_scores |->
        IF system \in DOMAIN cfg.awareness_sensitivity
        THEN Mul(response.awareness_scores[system], cfg.awareness_sensitivity[system])
        ELSE response.awareness_scores[system]]]

(* The adjustment scaled by the activation of the Mind field as well. *)
apply_awareness_adjustments_by_activation(cfg, response) ==
  [response EXCEPT !.awareness_scores =
     [system \in DOMAIN response.awareness_scores |->
        IF system \in DOMAIN cfg.awareness_sensitivity
        THEN Min(Scale, Max(0, Mul(Mul(response.awareness_scores[system],
                                       cfg.awareness_sensitivity[system]),
                                   response.field_states["Mind"].activation)))
        ELSE response.awareness_scores[system]]]

(* _apply_awareness_adjustments *)
apply_awareness_adjustments(cfg, response) ==
  [response EXCEPT !.awareness_scores =
     [system \in DOMAIN response.awareness_scores |->
        IF system \in DOMAIN cfg.awareness_sensitivity
        THEN Min(Scale, Max(0, Mul(response.awareness_scores[system],
                                   cfg.awareness_sensitivity[system])))
        ELSE response.awareness_scores[system]]]

(* The adjustment with a clamp at zero as well. *)
apply_field_adjustments_floored(cfg, response) ==
  [response EXCEPT !.field_states =
     [field_name \in DOMAIN response.field_states |->
        IF field_name \in DOMAIN cfg.field_emphasis
        THEN [response.field_states[field_name] EXCEPT !.activation =
                Max(0, Min(Scale, Mul(response.field_states[field_name].activation,
                                      cfg.field_emphasis[field_name])))]
        ELSE response.field_states[field_name]]]

(* _apply_field_adjustments *)
apply_field_adjustments(cfg, response) ==
  [response EXCEPT !.field_states =
     [field_name \in DOMAIN response.field_states |->
        IF field_name \in DOMAIN cfg.field_emphasis
        THEN [response.field_states[field_name] EXCEPT !.activation =
                Min(Scale, Mul(response.field_states[field_name].activation,
                               cfg.field_emphasis[field_name]))]
        ELSE response.field_states[field_name]]]

(* _export_current_config while self.config is cfg. *)
export_current_config(cfg) ==
  [chart_system          |-> cfg.primary_chart_system,
   awareness_sensitivity |-> cfg.awareness_sensitivity,
   field_emphasis        |-> cfg.field_emphasis,
   transit_weight        |-> cfg.transit_weight,
   has_transits          |-> current_transits # <<>>,
   has_progressions      |-> current_progressions # <<>>]

(* The two adjustments of query, in the order the code applies them. *)
adjusted_response(cfg, response) ==
  apply_field_adjustments(cfg, apply_awareness_adjustments(cfg, response))

(* AdjustableConsciousness.query up to the threshold test, while         *)
(* self.config is cfg.  The temporary engine is built on the composite   *)
(* chart; p is what the initialisation of its network draws, and noise   *)
(* what torch.randn draws if the perturbation is used.  The threshold    *)
(* test has one effect, the printed warning.                             *)
query_trace(cfg, question, use_transits, use_progressions, intention_strength, p, noise) ==
  LET composite == build_composite_placements(natal_placements, current_transits,
                     current_progressions, use_transits, use_progressions)
  IN Bind(query_response(p, topk_ties, composite, find_body_sun(composite),
            get_edge_index, get_awareness_masks, initialize_from_quantum_state,
            question, <<>>, intention_strength > 0, noise),
          LAMBDA response :
            [use_transits  |-> use_transits,
             use_progressions |-> use_progressions,
             intention_strength |-> intention_strength,
             noise         |-> noise,
             use_intention_perturbation |-> intention_strength > 0,
             transits      |-> overlay(use_transits, current_transits),
             progressions  |-> overlay(use_progressions, current_progressions),
             composite     |-> composite,
             cfg           |-> cfg,
             question      |-> question,
             temp_response |-> response,
             warning       |-> adjusted_response(cfg, response).coherence_level
                                 < cfg.coherence_threshold])

(* The entry that query appends to query_history. *)
history_entry(trace) ==
  [question |-> trace.question,
   response |-> adjusted_response(trace.cfg, trace.temp_response),
   config   |-> export_current_config(trace.cfg)]

(* The entries of one call, with the field adjustment of its last query  *)
(* applied once more to every response the history already holds.        *)
record_queries_readjusting(traces) ==
  /\ adj_trace' = <<traces[Len(traces)]>>
  /\ query_history' =
       [i \in 1..Len(query_history) |->
          [query_history[i] EXCEPT !.response =
             apply_field_adjustments(traces[Len(traces)].cfg, query_history[i].response)]]
       \o [i \in 1..Len(traces) |-> history_entry(traces[i])]

(* A query that keeps a response only if its coherence reaches the       *)
(* threshold.                                                            *)
record_queries_above_threshold(traces) ==
  /\ adj_trace' = <<traces[Len(traces)]>>
  /\ query_history' = query_history \o
       LET kept == SelectSeq(traces, LAMBDA trace : ~trace.warning)
       IN [i \in 1..Len(kept) |-> history_entry(kept[i])]

(* What the queries of one call leave on the instance: an entry of       *)
(* query_history for each, in order.                                     *)
record_queries(traces) ==
  /\ adj_trace' = <<traces[Len(traces)]>>
  /\ query_history' = query_history \o [i \in 1..Len(traces) |-> history_entry(traces[i])]

(* AdjustableConsciousness.query *)
adjustable_query(question, use_transits, use_progressions, intention_strength, p, noise) ==
  /\ adjustable_step
  /\ UNCHANGED <<config, current_transits, current_progressions, compare_call>>
  /\ \E trace \in {query_trace(config, question, use_transits, use_progressions,
                                intention_strength, p, noise)} :
       record_queries(<<trace>>)

(* The queries of compare_configurations: self.query(question) under     *)
(* each configuration of the list in turn, with the defaults of query.   *)
compare_traces(question, configs, draws) ==
  Built([i \in 1..Len(configs) |->
           query_trace(configs[i], question, TRUE, TRUE, Scale, draws[i].p, draws[i].noise)])

(* The dict compare_configurations returns: the response of query i     *)
(* under the key config_i, here the index i, counted from 0.             *)
compare_results(traces) ==
  [i \in 0..(Len(traces) - 1) |-> history_entry(traces[i + 1]).response]

(* compare_configurations that leaves the last configuration of the list *)
(* in force.                                                             *)
compare_configurations_unrestored(question, configs, draws) ==
  /\ adjustable_step
  /\ \E traces \in {compare_traces(question, configs, draws)} :
       /\ IF configs = <<>>
          THEN UNCHANGED <<adj_trace, query_history>>
          ELSE record_queries(traces)
       /\ compare_call' = <<[question |-> question, configs |-> configs,
                             traces |-> traces, results |-> compare_results(traces)]>>
  /\ config' = IF configs = <<>> THEN config ELSE configs[Len(configs)]
  /\ UNCHANGED <<current_transits, current_progressions>>

(* AdjustableConsciousness.compare_configurations: self.config is set to *)
(* each configuration for its query and is the original one again at the *)
(* end.                                                                  *)
compare_configurations(question, configs, draws) ==
  /\ adjustable_step
  /\ \E traces \in {compare_traces(question, configs, draws)} :
       /\ IF configs = <<>>
          THEN UNCHANGED <<adj_trace, query_history>>
          ELSE record_queries(traces)
       /\ compare_call' = <<[question |-> question, configs |-> configs,
                             traces |-> traces, results |-> compare_results(traces)]>>
  /\ UNCHANGED <<config, current_transits, current_progressions>>

(* A configuration as a caller builds one: overlays not allowed, other   *)
(* weights and chart system, the sensitivities of                        *)
(* _generate_test_configurations, one emphasis below zero and one above  *)
(* one, and a threshold no response reaches.                             *)
StrictConfiguration ==
  [primary_chart_system  |-> "tropical",
   allow_transits        |-> FALSE,
   transit_weight        |-> Scale,
   allow_progressions    |-> FALSE,
   progression_weight    |-> 0,
   awareness_sensitivity |-> [s \in {"spleen", "ajna", "solar"} |->
                                CASE s = "spleen" -> (3 * Scale) \div 2
                                  [] s = "ajna"   -> Scale
                                  [] s = "solar"  -> Scale \div 2],
   field_emphasis        |-> [f \in {"Mind", "Heart"} |->
                                IF f = "Mind" THEN 0 - Scale \div 2 ELSE 2 * Scale],
   coherence_threshold   |-> Scale]

ConfigLists == {<<StrictConfiguration>>}

AddTransits == \E transit_placements \in TransitLists : add_transits(transit_placements)

RemoveTransits == remove_transits

AddProgressions ==
  \E progression_placements \in ProgressionLists : add_progressions(progression_placements)

RemoveProgressions == remove_progressions

AdjustAwarenessSensitivity ==
  \E system \in SystemNames, sensitivity \in Sensitivities :
    adjust_awareness_sensitivity(system, sensitivity)

EmphasizeField ==
  \E field_name \in EmphasisNames, emphasis \in Emphases :
    emphasize_field(field_name, emphasis)

AdjustableQuery ==
  \E question \in {"test"}, use_transits \in {TRUE}, use_progressions \in {TRUE},
     intention_strength \in IntentionStrengths, p \in ParamSets, noise \in Noises :
    adjustable_query(question, use_transits, use_progressions, intention_strength, p, noise)

CompareConfigurations ==
  \E question \in {"test"}, configs \in ConfigLists, p \in ParamSets, noise \in Noises :
    compare_configurations(question, configs, [i \in 1..Len(configs) |-> [p |-> p, noise |-> noise]])

NextAdjustable ==
  \/ AddTransits
  \/ RemoveTransits
  \/ AddProgressions
  \/ RemoveProgressions
  \/ AdjustAwarenessSensitivity
  \/ EmphasizeField
  \/ AdjustableQuery
  \/ CompareConfigurations

SpecAdjustable == InitAdjustable /\ [][NextAdjustable]_vars

(* AdjustableConsciousness(natal, ..., config) with the default or with  *)
(* a caller's configuration, then overlays added and removed and queries *)
(* with and without each overlay; the network of every temporary engine  *)
(* draws the same parameters and no perturbation is asked for.           *)
InitOverlay ==
  /\ params = ZeroParams
  /\ topk_ties = "first"
  /\ natal_placements \in Charts
  /\ engine_init(natal_placements)
  /\ config \in {ConsciousnessConfiguration, StrictConfiguration}
  /\ current_transits = <<>>
  /\ current_progressions = <<>>
  /\ query_history = <<>>
  /\ adj_trace = <<>>
  /\ compare_call = <<>>
  /\ NoAPI
  /\ adj_steps = 0
  /\ NoCoherenceCall
  /\ NoCoreCall
  /\ NoThreads

OverlayQuery ==
  \E use_transits \in BOOLEAN, use_progressions \in BOOLEAN :
    adjustable_query("test", use_transits, use_progressions, 0, ZeroParams, Zeros(NumGates))

NextOverlay ==
  \/ AddTransits
  \/ RemoveTransits
  \/ AddProgressions
  \/ RemoveProgressions
  \/ OverlayQuery

SpecOverlay == InitOverlay /\ [][NextOverlay]_vars

(* The loop of demo_intention_strength: queries that differ in their     *)
(* intention_strength alone, on a freshly built instance.                *)
IntentionQuery ==
  \E intention_strength \in DemoStrengths, p \in ParamSets, noise \in Noises :
    adjustable_query("test", TRUE, TRUE, intention_strength, p, noise)

NextIntention == IntentionQuery

SpecIntention == InitAdjustable /\ [][NextIntention]_vars

(* Lists of configurations handed to compare_configurations: none, one,  *)
(* and two that differ, the second being the default.                    *)
CompareConfigLists ==
  {<<>>, <<StrictConfiguration>>, <<StrictConfiguration, ConsciousnessConfiguration>>}

CompareLists ==
  \E configs \in CompareConfigLists, p \in ParamSets, noise \in Noises :
    compare_configurations("test", configs, [i \in 1..Len(configs) |-> [p |-> p, noise |-> noise]])

NextCompare == CompareLists

(* An instance built with the default or with a caller's configuration,  *)
(* on which compare_configurations is called with lists of each length.  *)
SpecCompare == InitOverlay /\ [][NextCompare]_vars

(* The parameters a network draws that are not all zero. *)
DrawnParams == CHOOSE p \in ParamSets : p # ZeroParams

(* query(question) with the defaults of its other arguments. *)
HistoryQuery ==
  \E noise \in Noises : adjustable_query("test", TRUE, TRUE, Scale, DrawnParams, noise)

NextHistory ==
  \/ HistoryQuery
  \/ AdjustAwarenessSensitivity
  \/ EmphasizeField
  \/ AddTransits
  \/ RemoveTransits

(* Queries between adjustments and overlays. *)
SpecHistory == InitOverlay /\ [][NextHistory]_vars

(* ------------------------------------------------------------------ *)
(* _compute_coherence on its own                                      *)
(* ------------------------------------------------------------------ *)

(* The score levels and the longest activation tensor tried. *)
ScoreLevels == {0, Scale \div 4, Scale \div 2, Scale}

MaxLen == 3

RECURSIVE SeqsUpTo(_, _)
SeqsUpTo(S, n) ==
  IF n = 0 THEN {<<>>}
  ELSE LET shorter == SeqsUpTo(S, n - 1)
       IN shorter \cup {Append(s, x) : s \in {t \in shorter : Len(t) = n - 1}, x \in S}

(* No engine is running: the engine of an empty chart, never queried. *)
NoEngine ==
  /\ params = ZeroParams
  /\ topk_ties = "first"
  /\ engine_init(<<>>)

(* An activation tensor of any length up to MaxLen, not yet measured. *)
InitCoherence ==
  /\ coh_scores \in SeqsUpTo(ScoreLevels, MaxLen)
  /\ coh_result = <<>>
  /\ NoEngine
  /\ NoAdjustable
  /\ NoCoreCall
  /\ NoThreads

(* The call _compute_coherence(coh_scores). *)
ComputeCoherence ==
  /\ coh_result = <<>>
  /\ coh_result' = <<compute_coherence(coh_scores)>>
  /\ UNCHANGED <<coh_scores, engine_vars, adjustable_vars, core_vars, thread_vars>>

NextCoherence == ComputeCoherence

SpecCoherence == InitCoherence /\ [][NextCoherence]_vars

(* ------------------------------------------------------------------ *)
(* core.py on its own: the channel table and Placement                *)
(* ------------------------------------------------------------------ *)

(* Gate numbers a channel entry may name: two of 1..64 and the two       *)
(* nearest numbers outside.                                              *)
ChannelGates == {0, 1, 64, 65}

(* core.CHANNELS as shipped, and with one more entry appended to the     *)
(* module's list before an engine is built.                              *)
ChannelTables ==
  {CHANNELS} \cup {Append(CHANNELS, <<g1, g2>>) : g1 \in ChannelGates, g2 \in ChannelGates}

(* Placements that agree or differ in line, stream and degree. *)
PlacementSamples ==
  { Placement("Sun", "body", 46, 3, <<135>>), Placement("Sun", "body", 46, 3, <<>>),
    Placement("Sun", "body", 46, 1, <<135>>), Placement("Sun", "design", 46, 3, <<135>>) }

(* Placement.__eq__ as @dataclass generates it: the tuples of all the    *)
(* fields are compared.                                                  *)
placement_eq(p, q) ==
  <<p.planet, p.stream, p.gate, p.line, p.degree>> = <<q.planet, q.stream, q.gate, q.line, q.degree>>

(* Placement.__hash__: the hash of (planet, stream.value, gate, line). *)
placement_hash(p) == <<p.planet, p.stream, p.gate, p.line>>

(* The module is loaded with a channel table, and a caller has built two *)
(* placements.                                                           *)
InitCore ==
  /\ channel_table \in ChannelTables
  /\ channels_pc = "loaded"
  /\ channel_edge_index = <<>>
  /\ placement_pair \in {<<p, q>> : p \in PlacementSamples, q \in PlacementSamples}
  /\ placement_ops = [constructed |-> placement_pair, compared |-> <<>>, encoded |-> <<>>]
  /\ NoEngine
  /\ NoAdjustable
  /\ NoCoherenceCall
  /\ NoThreads

(* VirtualConsciousnessEngine.__init__: the encoder's get_edge_index on  *)
(* the table; nothing looks at the endpoints.                            *)
ConstructEdgeIndex ==
  /\ channels_pc = "loaded"
  /\ channel_edge_index' = edge_index_of(channel_table)
  /\ channels_pc' = "constructed"
  /\ UNCHANGED <<channel_table, placement_pair, placement_ops>>
  /\ UNCHANGED <<engine_vars, adjustable_vars, coherence_vars, thread_vars>>

(* Step 4 of query: the forward pass is handed edge_index and gathers    *)
(* the rows its endpoints name; an endpoint outside 0..63 makes the      *)
(* gather raise.                                                         *)
ForwardReadsEdgeIndex ==
  /\ channels_pc = "constructed"
  /\ channels_pc' =
       IF \A e \in 1..Len(channel_edge_index) :
            /\ channel_edge_index[e][1] \in 0..(NumGates - 1)
            /\ channel_edge_index[e][2] \in 0..(NumGates - 1)
       THEN "queried" ELSE "forward_raised"
  /\ UNCHANGED <<channel_table, channel_edge_index, placement_pair, placement_ops>>
  /\ UNCHANGED <<engine_vars, adjustable_vars, coherence_vars, thread_vars>>

(* p == q and hash(p) == hash(q) on the two placements. *)
ComparePlacements ==
  /\ placement_ops.compared = <<>>
  /\ placement_ops' =
       [placement_ops EXCEPT !.compared =
          <<[a       |-> placement_pair[1],
             b       |-> placement_pair[2],
             eq      |-> placement_eq(placement_pair[1], placement_pair[2]),
             hash_eq |-> placement_hash(placement_pair[1]) = placement_hash(placement_pair[2])]>>]
  /\ UNCHANGED <<channel_table, channels_pc, channel_edge_index, placement_pair>>
  /\ UNCHANGED <<engine_vars, adjustable_vars, coherence_vars, thread_vars>>

(* The assignment p.line = line on the first placement: the dataclass is *)
(* not frozen, the attribute is set.                                     *)
AssignLine ==
  /\ placement_pair = placement_ops.constructed
  /\ \E line \in {1, 3} :
       placement_pair' = <<[placement_pair[1] EXCEPT !.line = line], placement_pair[2]>>
  /\ UNCHANGED <<channel_table, channels_pc, channel_edge_index, placement_ops>>
  /\ UNCHANGED <<engine_vars, adjustable_vars, coherence_vars, thread_vars>>

(* Sun placements a caller may hand to the encoder: gates and lines at   *)
(* both ends of their ranges and the nearest numbers outside, with and   *)
(* without a degree.                                                     *)
SunSamples ==
  {Placement("Sun", "body", gate, line, degree) :
     gate \in {0, 1, 64, 65}, line \in {0, 1, 6, 7}, degree \in {<<>>, <<135>>}}

(* QuantumFieldEncoder().encode_sun_context(sun_placement): the vector,  *)
(* or the IndexError of an index assignment.                             *)
EncodeSunContext ==
  /\ placement_ops.encoded = <<>>
  /\ \E sun_placement \in SunSamples :
       placement_ops' =
         [placement_ops EXCEPT !.encoded =
            <<[sun_placement |-> sun_placement,
               outcome |-> IF sun_index_error(sun_placement)
                           THEN "IndexError" ELSE "returned",
               vector  |-> IF sun_index_error(sun_placement)
                           THEN <<>> ELSE encode_sun_context(sun_placement)]>>]
  /\ UNCHANGED <<channel_table, channels_pc, channel_edge_index, placement_pair>>
  /\ UNCHANGED <<engine_vars, adjustable_vars, coherence_vars, thread_vars>>

NextCore ==
  \/ ConstructEdgeIndex
  \/ ForwardReadsEdgeIndex
  \/ ComparePlacements
  \/ AssignLine
  \/ EncodeSunContext

SpecCore == InitCore /\ [][NextCore]_vars

(* ------------------------------------------------------------------ *)
(* engine.py: two threads in query on one engine, no lock             *)
(* ------------------------------------------------------------------ *)

Threads == {1, 2}

(* The question of each thread. *)
ThreadQuestion(t) == IF t = 1 THEN "what is my purpose" ELSE "test"

(* The locals of a call of query that has not started. *)
ThreadStart(t, observer_state) ==
  [question       |-> ThreadQuestion(t),
   observer_state |-> observer_state,
   out            |-> <<>>,
   ran_initialize |-> FALSE,
   k              |-> 0,
   iter_size      |-> 0,
   states         |-> <<>>,
   response       |-> <<>>]

(* One engine, and two threads that each call query(question,            *)
(* observer_state) without the perturbation.                             *)
InitThreads ==
  /\ params \in ParamSets
  /\ topk_ties \in {"first", "last"}
  /\ engine_init(DemoChart)
  /\ thread_pc = [t \in Threads |-> "start"]
  /\ \E o1 \in ObserverStates, o2 \in ObserverStates :
       thread_local = [t \in Threads |-> ThreadStart(t, IF t = 1 THEN o1 ELSE o2)]
  /\ NoAdjustable
  /\ NoCoherenceCall
  /\ NoCoreCall

(* What a step of a thread leaves alone. *)
thread_step ==
  UNCHANGED <<params, topk_ties, birth_placements, body_sun, awareness_masks, edge_index,
              engine_log, adjustable_vars, coherence_vars, core_vars>>

(* Steps 1 to 4: everything read is fixed at construction. *)
ThreadForward(t) ==
  /\ thread_pc[t] = "start"
  /\ thread_local' = [thread_local EXCEPT ![t].out =
       <<quantum_pass(params, birth_placements, body_sun, edge_index, awareness_masks,
                      thread_local[t].question, thread_local[t].observer_state,
                      FALSE, Zeros(NumGates))>>]
  /\ thread_pc' = [thread_pc EXCEPT ![t] = "check"]
  /\ UNCHANGED <<consciousness_initialized, nine_body_fields>>
  /\ thread_step

(* Step 5: the test of _consciousness_initialized. *)
ThreadCheckInitialized(t) ==
  /\ thread_pc[t] = "check"
  /\ thread_pc' = [thread_pc EXCEPT ![t] =
       IF consciousness_initialized THEN "begin_collapse" ELSE "initialize"]
  /\ thread_local' = [thread_local EXCEPT ![t].k = 1,
                                          ![t].ran_initialize = ~consciousness_initialized]
  /\ UNCHANGED <<consciousness_initialized, nine_body_fields>>
  /\ thread_step

(* The table with a fresh dict at the first assignment of the loop. *)
initialize_field_clearing(fields, k) ==
  Put(IF k = 1 THEN <<>> ELSE fields, FieldNames[k], get_field_gates(FieldNames[k]))

(* One pass of the loop of initialize_from_quantum_state:                *)
(* self.fields[field_name] = ConsciousnessField(field_name, ...).        *)
initialize_field(fields, k) ==
  Put(fields, FieldNames[k], get_field_gates(FieldNames[k]))

ThreadInitializeField(t) ==
  /\ thread_pc[t] = "initialize"
  /\ nine_body_fields' = initialize_field(nine_body_fields, thread_local[t].k)
  /\ thread_local' = [thread_local EXCEPT ![t].k = @ + 1]
  /\ thread_pc' = [thread_pc EXCEPT ![t] =
       IF thread_local[t].k = Len(FieldNames) THEN "set_flag" ELSE "initialize"]
  /\ UNCHANGED consciousness_initialized
  /\ thread_step

(* self._consciousness_initialized = True *)
ThreadSetInitialized(t) ==
  /\ thread_pc[t] = "set_flag"
  /\ consciousness_initialized' = TRUE
  /\ thread_pc' = [thread_pc EXCEPT ![t] = "begin_collapse"]
  /\ UNCHANGED <<nine_body_fields, thread_local>>
  /\ thread_step

(* collapse_all_fields: states = {} and the iterator over                *)
(* self.fields.items(), which remembers the size of the dict.            *)
ThreadBeginCollapse(t) ==
  /\ thread_pc[t] = "begin_collapse"
  /\ thread_local' = [thread_local EXCEPT ![t].k = 1,
                                          ![t].iter_size = Cardinality(DOMAIN nine_body_fields),
                                          ![t].states = <<>>]
  /\ thread_pc' = [thread_pc EXCEPT ![t] = "collapse"]
  /\ UNCHANGED <<consciousness_initialized, nine_body_fields>>
  /\ thread_step

(* The keys of the field table in insertion order: every writer inserts  *)
(* them in the order of CONSCIOUSNESS_FIELDS, and an assignment to a key *)
(* that is present keeps its place.                                      *)
FieldOrder(fields) == SelectSeq(FieldNames, LAMBDA f : f \in DOMAIN fields)

(* One pass of the loop of collapse_all_fields: the iterator raises if   *)
(* the dict changed size, else it yields the next field, as the table    *)
(* holds it now, and the field is collapsed.                             *)
ThreadCollapseField(t) ==
  /\ thread_pc[t] = "collapse"
  /\ thread_local[t].k <= thread_local[t].iter_size
       \/ Cardinality(DOMAIN nine_body_fields) # thread_local[t].iter_size
  /\ IF Cardinality(DOMAIN nine_body_fields) # thread_local[t].iter_size
     THEN /\ thread_pc' = [thread_pc EXCEPT ![t] = "raised"]
          /\ UNCHANGED thread_local
     ELSE /\ thread_pc' = thread_pc
          /\ LET field_name == FieldOrder(nine_body_fields)[thread_local[t].k]
                 out        == thread_local[t].out[1]
             IN thread_local' =
                  [thread_local EXCEPT
                     ![t].k = @ + 1,
                     ![t].states = Put(@, field_name,
                        collapse_to_state(field_name, nine_body_fields[field_name],
                                          out.codon_scores, out.awareness, topk_ties))]
  /\ UNCHANGED <<consciousness_initialized, nine_body_fields>>
  /\ thread_step

(* The end of the loop, _compute_resonances over the keys of states in   *)
(* their order, and steps 7 to 9.                                        *)
ThreadReturn(t) ==
  /\ thread_pc[t] = "collapse"
  /\ thread_local[t].k > thread_local[t].iter_size
  /\ Cardinality(DOMAIN nine_body_fields) = thread_local[t].iter_size
  /\ thread_local' = [thread_local EXCEPT ![t].response =
       <<package_response(thread_local[t].question, thread_local[t].out[1],
           compute_resonances(thread_local[t].states, FieldOrder(thread_local[t].states)),
           body_sun)>>]
  /\ thread_pc' = [thread_pc EXCEPT ![t] = "done"]
  /\ UNCHANGED <<consciousness_initialized, nine_body_fields>>
  /\ thread_step

NextThreads ==
  \E t \in Threads :
    \/ ThreadForward(t)
    \/ ThreadCheckInitialized(t)
    \/ ThreadInitializeField(t)
    \/ ThreadSetInitialized(t)
    \/ ThreadBeginCollapse(t)
    \/ ThreadCollapseField(t)
    \/ ThreadReturn(t)

SpecThreads == InitThreads /\ [][NextThreads]_vars

(* ------------------------------------------------------------------ *)
(* api.py: VirtualConsciousnessAPI                                    *)
(* ------------------------------------------------------------------ *)

(* ConsciousnessConfiguration(awareness_sensitivity=...): the default    *)
(* with the given sensitivities.                                         *)
PresetConfiguration(spleen, ajna, solar) ==
  [ConsciousnessConfiguration EXCEPT
     !.awareness_sensitivity = [s \in {"spleen", "ajna", "solar"} |->
                                  CASE s = "spleen" -> spleen
                                    [] s = "ajna"   -> ajna
                                    [] s = "solar"  -> solar]]

(* self.focus_presets as __init__ builds it. *)
FocusPresets ==
  [f \in {"survival", "mental", "emotional", "balanced"} |->
     CASE f = "survival"  -> PresetConfiguration((3 * Scale) \div 2, (7 * Scale) \div 10, (7 * Scale) \div 10)
       [] f = "mental"    -> PresetConfiguration((7 * Scale) \div 10, (3 * Scale) \div 2, (7 * Scale) \div 10)
       [] f = "emotional" -> PresetConfiguration((7 * Scale) \div 10, (7 * Scale) \div 10, (3 * Scale) \div 2)
       [] f = "balanced"  -> PresetConfiguration(Scale, Scale, Scale)]

(* The keys of chart_system_map. *)
chart_system_map == {"sidereal", "tropical", "draconic"}

(* SimpleQuery objects: no focus, two presets and a name that is no      *)
(* preset; two chart systems and a name that is none.                    *)
SimpleQueries ==
  {[question |-> "test", focus |-> focus, include_transits |-> FALSE, chart_system |-> chart_system] :
     focus \in {"None", "survival", "mental", "astral"},
     chart_system \in {"sidereal", "tropical", "vedic"}}

(* _simplify_response: the five gates of highest score (sorted is        *)
(* stable, so the lower gate first among equal scores), the first field  *)
(* of highest activation, and the confidence word.                       *)
simplify_response(response) ==
  LET scores == [g \in Gates |-> response.codon_activations[g]]
      top    == topk(scores, 5, "first", {})
      best   == CHOOSE i \in 1..Len(FieldNames) :
                  /\ \A j \in 1..Len(FieldNames) :
                       response.field_states[FieldNames[j]].activation
                         <= response.field_states[FieldNames[i]].activation
                  /\ \A j \in 1..(i - 1) :
                       response.field_states[FieldNames[j]].activation
                         < response.field_states[FieldNames[i]].activation
  IN [answer_seeds   |-> response.narrative_seeds,
      top_gates      |-> [n \in 1..5 |-> <<top[n], scores[top[n]]>>],
      awareness      |-> response.awareness_scores,
      dominant_field |-> FieldNames[best],
      coherence      |-> response.coherence_level,
      confidence     |-> IF response.coherence_level > (75 * Scale) \div 100 THEN "high"
                         ELSE IF response.coherence_level > (50 * Scale) \div 100 THEN "medium"
                         ELSE "low"]

(* A query without a recognised focus falls back to the balanced preset. *)
focus_after_resetting(simple_query) ==
  IF simple_query.focus # "None" /\ simple_query.focus \in DOMAIN focus_presets
  THEN simple_query.focus ELSE "balanced"

(* The object consciousness.config is after the focus test of query: the *)
(* preset of a recognised focus, else the object it was.                 *)
focus_after(simple_query) ==
  IF simple_query.focus # "None" /\ simple_query.focus \in DOMAIN focus_presets
  THEN simple_query.focus ELSE api_focus

(* VirtualConsciousnessAPI(birth_datetime, birth_location, placements). *)
InitAPI ==
  /\ params = ZeroParams
  /\ topk_ties = "first"
  /\ natal_placements \in Charts
  /\ engine_init(natal_placements)
  /\ config = ConsciousnessConfiguration
  /\ current_transits = <<>>
  /\ current_progressions = <<>>
  /\ query_history = <<>>
  /\ adj_trace = <<>>
  /\ compare_call = <<>>
  /\ adj_steps = 0
  /\ api_focus = "own"
  /\ focus_presets = FocusPresets
  /\ api_call = <<>>
  /\ NoCoherenceCall
  /\ NoCoreCall
  /\ NoThreads

(* VirtualConsciousnessAPI.query: the focus test, set_chart_system on    *)
(* the object that is then the configuration, the query of the           *)
(* consciousness under it, and the simplified response.                  *)
api_query(simple_query, p, noise) ==
  /\ adj_steps < MaxSteps
  /\ adj_steps' = adj_steps + 1
  /\ UNCHANGED <<engine_vars, coherence_vars, core_vars, thread_vars, natal_placements>>
  /\ UNCHANGED <<current_transits, current_progressions, compare_call>>
  /\ api_focus' = focus_after(simple_query)
  /\ LET held == IF api_focus' = api_focus THEN config ELSE focus_presets[api_focus']
     IN config' = IF simple_query.chart_system \in chart_system_map
                  THEN [held EXCEPT !.primary_chart_system = simple_query.chart_system]
                  ELSE held
  /\ focus_presets' = IF api_focus' = "own" THEN focus_presets
                      ELSE [focus_presets EXCEPT ![api_focus'] = config']
  /\ \E trace \in {query_trace(config', simple_query.question, simple_query.include_transits, TRUE,
                               Scale, p, noise)} :
       /\ record_queries(<<trace>>)
       /\ api_call' = <<[query    |-> simple_query,
                         response |-> simplify_response(history_entry(trace).response)]>>

APIQuery ==
  \E simple_query \in SimpleQueries, noise \in Noises :
    api_query(simple_query, DrawnParams, noise)

NextAPI == APIQuery

SpecAPI == InitAPI /\ [][NextAPI]_vars

(* ------------------------------------------------------------------ *)
(* Properties                                                         *)
(* ------------------------------------------------------------------ *)

(* The set of the elements of a sequence. *)
Range(s) == {s[i] : i \in 1..Len(s)}

(* The calls of the log made without the perturbation. *)
PlainCalls == {c \in engine_log : ~c.use_intention_perturbation}

(* C1: on one engine (fixed placements, fixed parameters), any two calls *)
(* of query made without the perturbation and with the same observer     *)
(* placement return the same per-gate scores and the same field states   *)
(* (activation, dominant gates, coherence, resonance, narrative seed),   *)
(* whatever the questions and however many calls came before.            *)
QueryDeterministic ==
  \A a \in PlainCalls : \A b \in PlainCalls :
    a.observer_state = b.observer_state
      => /\ a.response.codon_activations = b.response.codon_activations
         /\ a.response.field_states = b.response.field_states

(* Two plain calls with different questions on a network whose scores    *)
(* vary from gate to gate.                                               *)
QueryDeterministicWitness ==
  /\ \E a \in PlainCalls : \E b \in PlainCalls :
       /\ a.response.question # b.response.question
       /\ a.observer_state = b.observer_state
       /\ \E g \in Gates : a.response.codon_activations[g] # a.response.codon_activations[1]
  /\ consciousness_initialized

(* How many times the edge e occurs in the 0-indexed edge list. *)
EdgeCount(e) == Cardinality({i \in 1..Len(edge_index) : edge_index[i] = e})

(* C2: for every pair (g1, g2) of CHANNELS the engine's edge list holds  *)
(* the edge g1 -> g2 exactly once and the edge g2 -> g1 exactly once,    *)
(* and no directed edge occurs twice in the list.                        *)
ChannelEdgesOnceEachWay ==
  /\ \A c \in 1..Len(CHANNELS) :
       /\ EdgeCount(<<CHANNELS[c][1] - 1, CHANNELS[c][2] - 1>>) = 1
       /\ EdgeCount(<<CHANNELS[c][2] - 1, CHANNELS[c][1] - 1>>) = 1
  /\ \A i \in 1..Len(edge_index) : \A j \in 1..Len(edge_index) :
       edge_index[i] = edge_index[j] => i = j

(* An engine whose edge list was used by a query, CHANNELS listing one   *)
(* pair in both orders and one pair twice.                               *)
ChannelEdgesWitness ==
  /\ engine_log # {}
  /\ \E c \in 1..Len(CHANNELS) : \E d \in 1..Len(CHANNELS) :
       c # d /\ CHANNELS[c] = <<CHANNELS[d][2], CHANNELS[d][1]>>
             /\ EdgeCount(<<CHANNELS[c][1] - 1, CHANNELS[c][2] - 1>>) = 1
  /\ \E c \in 1..Len(CHANNELS) : \E d \in 1..Len(CHANNELS) :
       c # d /\ CHANNELS[c] = CHANNELS[d]

(* C3: the nine center sets are pairwise disjoint, their union is 1..64, *)
(* and gate_to_center gives every gate of 1..64, the gate of every birth *)
(* placement among them, the one center, never None, that holds it.      *)
CentersPartitionGates ==
  /\ \A p \in Range(birth_placements) :
       /\ gate_to_center(p.gate) \in Range(CenterNames)
       /\ p.gate \in CENTERS[gate_to_center(p.gate)]
  /\ UNION {CENTERS[c] : c \in Range(CenterNames)} = Gates
  /\ \A c \in Range(CenterNames) : \A d \in Range(CenterNames) :
       c # d => CENTERS[c] \cap CENTERS[d] = {}
  /\ \A g \in Gates :
       /\ gate_to_center(g) \in Range(CenterNames)
       /\ {c \in Range(CenterNames) : g \in CENTERS[c]} = {gate_to_center(g)}

(* A queried engine whose chart has a placement in the first center and *)
(* placements in two other centers.                                      *)
CentersPartitionWitness ==
  /\ engine_log # {}
  /\ \E p \in Range(birth_placements) : gate_to_center(p.gate) = CenterNames[1]
  /\ Cardinality({gate_to_center(p.gate) : p \in Range(birth_placements)}) >= 3

(* C4: among the dominant gates of every field, of two gates with equal  *)
(* scores the lower-numbered comes first, and no gate left out has the   *)
(* score of a dominant gate and a lower number; so with all scores equal *)
(* the dominant gates are the field's three lowest, ascending.           *)
DominantTiesAscending ==
  \A c \in engine_log : \A f \in DOMAIN c.response.field_states :
    LET d     == c.response.field_states[f].dominant_gates
        score == c.response.codon_activations
    IN /\ \A i \in 1..Len(d) : \A j \in 1..Len(d) :
            (i < j /\ score[d[i]] = score[d[j]]) => d[i] < d[j]
       /\ \A i \in 1..Len(d) : \A g \in FieldGateSet(f) \ Range(d) :
            score[g] = score[d[i]] => d[i] < g

(* The half row of the gate and stream of the k-th birth placement. *)
HalfRowOf(k) ==
  LET p == birth_placements[k]
  IN encode_gate_placements(
       IF p.stream = "body" THEN body_placements(birth_placements, p.gate)
       ELSE design_placements(birth_placements, p.gate))

(* C5: a placement whose planet is not in PLANETS is still counted in    *)
(* the line histogram of its gate and stream: the histogram entry of its *)
(* line is above zero.                                                   *)
UnknownPlanetInLineHistogram ==
  \A k \in 1..Len(birth_placements) :
    birth_placements[k].planet \notin KnownPlanets
      => HalfRowOf(k)[num_planets + birth_placements[k].line] > 0

(* The gates that the placements of a list name. *)
GatesOf(placements) == {p.gate : p \in Range(placements)}

(* C6: when a query appends the transits, and nothing else, to the natal *)
(* list, the encoded row of every gate that no transit placement names   *)
(* is the row that the natal list alone gives.                           *)
TransitsTouchOnlyTheirGates ==
  (adj_trace # <<>> /\ adj_trace[1].transits # <<>> /\ adj_trace[1].progressions = <<>>)
    => LET natal   == encode_placements(natal_placements)
           overlay_rows == encode_placements(natal_placements \o adj_trace[1].transits)
       IN /\ adj_trace[1].composite = natal_placements \o adj_trace[1].transits
          /\ \A g \in Gates \ GatesOf(adj_trace[1].transits) : overlay_rows[g] = natal[g]

(* A query over natal placements and transits whose row of a transit     *)
(* gate differs from the natal row.                                      *)
TransitsTouchWitness ==
  /\ adj_trace # <<>>
  /\ adj_trace[1].transits # <<>>
  /\ adj_trace[1].progressions = <<>>
  /\ \E g \in GatesOf(adj_trace[1].transits) :
       encode_placements(adj_trace[1].composite)[g] # encode_placements(natal_placements)[g]

(* clamp(v, 0, 1) *)
Clamp01(v) == IF v < 0 THEN 0 ELSE IF v > Scale THEN Scale ELSE v

(* C7: in the response of every AdjustableConsciousness.query each       *)
(* awareness score lies in [0, 1], and in the last response each score   *)
(* with a configured sensitivity is clamp(raw score * sensitivity, 0, 1) *)
(* of the score the temporary engine returned.                           *)
AwarenessScoresClamped ==
  /\ \A n \in 1..Len(query_history) :
       \A system \in DOMAIN query_history[n].response.awareness_scores :
         /\ query_history[n].response.awareness_scores[system] >= 0
         /\ query_history[n].response.awareness_scores[system] <= Scale
  /\ query_history # <<>> =>
       LET last == query_history[Len(query_history)]
           raw  == adj_trace[1].temp_response.awareness_scores
       IN \A system \in DOMAIN last.config.awareness_sensitivity :
            last.response.awareness_scores[system] =
              Clamp01((raw[system] * last.config.awareness_sensitivity[system]) \div Scale)

(* A raw score of 0.5 under sensitivity 5.0, returned as 1.0. *)
AwarenessClampWitness ==
  /\ query_history # <<>>
  /\ LET last == query_history[Len(query_history)]
         raw  == adj_trace[1].temp_response.awareness_scores
     IN \E system \in DOMAIN last.config.awareness_sensitivity :
          /\ last.config.awareness_sensitivity[system] = 5 * Scale
          /\ raw[system] = Scale \div 2
          /\ last.response.awareness_scores[system] = Scale

(* C8: in the field states of every response, the resonance that field A *)
(* stores under field B is the resonance that B stores under A, for      *)
(* every two fields, and it lies in [0, 1].                              *)
ResonanceSymmetric ==
  \A c \in engine_log :
    LET states == c.response.field_states
    IN \A A \in DOMAIN states : \A B \in (DOMAIN states) \ {A} :
         /\ B \in DOMAIN states[A].resonance
         /\ A \in DOMAIN states[B].resonance
         /\ states[A].resonance[B] = states[B].resonance[A]
         /\ states[A].resonance[B] >= 0
         /\ states[A].resonance[B] <= Scale

(* A response in which two fields resonate strictly between 0 and 1 and  *)
(* two other fields differ in coherence.                                 *)
ResonanceWitness ==
  \E c \in engine_log :
    LET states == c.response.field_states
    IN /\ \E A \in DOMAIN states : \E B \in (DOMAIN states) \ {A} :
            states[A].resonance[B] > 0 /\ states[A].resonance[B] < Scale
       /\ \E A \in DOMAIN states : \E B \in DOMAIN states :
            states[A].coherence # states[B].coherence

(* The unbiased variance of the scores is VarNum / VarDen. *)
VarNum(scores) ==
  Len(scores) * SumSeq([i \in 1..Len(scores) |-> scores[i] * scores[i]])
    - SumSeq(scores) * SumSeq(scores)

VarDen(scores) == Len(scores) * (Len(scores) - 1)

(* C9: _compute_coherence returns exactly 1.0 for fewer than two scores; *)
(* for two or more it returns a value in (0, 1] that is 1 / (1 + s), s   *)
(* the standard deviation of the scores (both rounded down to the        *)
(* resolution of the arithmetic).                                        *)
CoherenceInUnitInterval ==
  coh_result # <<>> =>
    IF Len(coh_scores) < 2 THEN coh_result[1] = Scale
    ELSE /\ coh_result[1] > 0
         /\ coh_result[1] <= Scale
         /\ \E s \in 0..Scale :
              /\ s * s * VarDen(coh_scores) <= VarNum(coh_scores)
              /\ VarNum(coh_scores) < (s + 1) * (s + 1) * VarDen(coh_scores)
              /\ coh_result[1] * (Scale + s) <= Scale * Scale
              /\ Scale * Scale < (coh_result[1] + 1) * (Scale + s)

(* A measured tensor of two or more unequal scores, coherence below 1. *)
CoherenceWitness ==
  /\ coh_result # <<>>
  /\ Len(coh_scores) >= 2
  /\ coh_result[1] < Scale
  /\ coh_result[1] > 0

(* The descriptor that the thresholds 0.4 and 0.7 give a coherence. *)
DescriptorFor(coherence) ==
  CASE 10 * coherence > 7 * Scale -> "high"
    [] 10 * coherence > 4 * Scale /\ 10 * coherence <= 7 * Scale -> "moderate"
    [] OTHER -> "low"

(* At least 12 placements, no two on one gate. *)
TwelveDistinctGates(placements) ==
  /\ Len(placements) >= 12
  /\ Cardinality(GatesOf(placements)) = Len(placements)

(* C10: with all parameters zero and a chart of at least 12 placements   *)
(* on distinct gates, a query without the perturbation returns 0.5 for   *)
(* each of the 64 gates, and the narrative seed of each of the 9 fields  *)
(* carries the descriptor that matches the field's coherence.            *)
ZeroNetworkUniform ==
  (params = ZeroParams /\ TwelveDistinctGates(birth_placements))
    => \A c \in PlainCalls :
         /\ DOMAIN c.response.codon_activations = Gates
         /\ \A g \in Gates : c.response.codon_activations[g] = Scale \div 2
         /\ Cardinality(DOMAIN c.response.field_states) = 9
         /\ \A f \in DOMAIN c.response.field_states :
              c.response.field_states[f].narrative_seed.coherence_desc =
                DescriptorFor(c.response.field_states[f].coherence)

(* A plain query answered by the zero network on such a chart. *)
ZeroNetworkWitness ==
  /\ params = ZeroParams
  /\ TwelveDistinctGates(birth_placements)
  /\ \E c \in PlainCalls : c.response.field_states["Mind"].coherence = Scale

(* The calls of the log made with no observer override. *)
CallsWithoutOverride == {c \in engine_log : c.observer_state = <<>>}

(* C11: on an engine whose placements hold no Sun in the body stream,    *)
(* every call of query made without an observer override used the        *)
(* all-zero observer vector of width 80 and returned a full response     *)
(* (64 gate scores, the five awareness scores, the nine field states and *)
(* the four seeds, a coherence level) whose observer_context holds None for *)
(* sun_gate and for sun_line.                                            *)
NoBodySunFallsBackToZeros ==
  body_sun = <<>> =>
    \A c \in CallsWithoutOverride :
      /\ Len(c.sun_context) = 80
      /\ \A i \in 1..Len(c.sun_context) : c.sun_context[i] = 0
      /\ c.response.observer_context = [sun_gate |-> <<>>, sun_line |-> <<>>]
      /\ DOMAIN c.response.codon_activations = 1..64
      /\ DOMAIN c.response.awareness_scores = Range(MaskNames)
      /\ DOMAIN c.response.field_states = Range(FieldNames)
      /\ DOMAIN c.response.narrative_seeds = {"spleen", "ajna", "solar", "core"}
      /\ c.response.coherence_level \in 0..Scale

(* A chart without a body Sun was queried with no override, with and     *)
(* without the perturbation.                                             *)
NoBodySunWitness ==
  /\ \A p \in Range(birth_placements) : ~(p.planet = "Sun" /\ p.stream = "body")
  /\ \E c \in CallsWithoutOverride : c.use_intention_perturbation
  /\ \E c \in CallsWithoutOverride : ~c.use_intention_perturbation

(* C12: an encoder is never built on a channel table naming a gate       *)
(* outside 1..64: once get_edge_index has returned, every endpoint of    *)
(* the edge list lies in 0..63, so no other edge reaches a forward pass. *)
MalformedChannelsRejected ==
  channels_pc # "loaded" =>
    \A e \in 1..Len(channel_edge_index) :
      /\ channel_edge_index[e][1] \in 0..63
      /\ channel_edge_index[e][2] \in 0..63

(* C13: two placements that agree on planet, stream, gate and line       *)
(* compare equal and hash equal whatever their degrees, and a placement  *)
(* a caller holds is still as it was constructed.                        *)
PlacementKeyedOnFourFields ==
  /\ placement_pair # <<>> => placement_pair = placement_ops.constructed
  /\ placement_ops # <<>> =>
       \A c \in Range(placement_ops.compared) :
         (c.a.planet = c.b.planet /\ c.a.stream = c.b.stream /\ c.a.gate = c.b.gate
            /\ c.a.line = c.b.line)
           => c.eq /\ c.hash_eq

(* C14: a call of adjust_awareness_sensitivity leaves the emphases, the  *)
(* threshold and the set of sensitivity keys as they were and changes    *)
(* the sensitivity of the named system alone, so nothing at all for a    *)
(* name that is not a key; emphasize_field does the same with the roles  *)
(* of the two tables exchanged.                                          *)
AdjustmentsTouchOneKnownEntry ==
  [][ /\ \A system \in SystemNames, sensitivity \in Sensitivities :
           adjust_awareness_sensitivity(system, sensitivity) =>
             /\ config'.field_emphasis = config.field_emphasis
             /\ config'.coherence_threshold = config.coherence_threshold
             /\ DOMAIN config'.awareness_sensitivity = DOMAIN config.awareness_sensitivity
             /\ \A s \in DOMAIN config.awareness_sensitivity :
                  config'.awareness_sensitivity[s] =
                    IF s = system THEN sensitivity ELSE config.awareness_sensitivity[s]
             /\ (system \notin DOMAIN config.awareness_sensitivity => config' = config)
      /\ \A field_name \in EmphasisNames, emphasis \in Emphases :
           emphasize_field(field_name, emphasis) =>
             /\ config'.awareness_sensitivity = config.awareness_sensitivity
             /\ config'.coherence_threshold = config.coherence_threshold
             /\ DOMAIN config'.field_emphasis = DOMAIN config.field_emphasis
             /\ \A f \in DOMAIN config.field_emphasis :
                  config'.field_emphasis[f] =
                    IF f = field_name THEN emphasis ELSE config.field_emphasis[f]
             /\ (field_name \notin DOMAIN config.field_emphasis => config' = config)
    ]_vars

(* Two calls with known names have changed one sensitivity and one       *)
(* emphasis, every other entry still at its default.                     *)
AdjustmentsWitness ==
  /\ adj_steps = 2
  /\ \E system \in SystemNames, field_name \in EmphasisNames :
       /\ system \in DOMAIN config.awareness_sensitivity
       /\ field_name \in DOMAIN config.field_emphasis
       /\ config.awareness_sensitivity[system] # Scale
       /\ config.field_emphasis[field_name] # Scale
       /\ \A s \in DOMAIN config.awareness_sensitivity \ {system} :
            config.awareness_sensitivity[s] = Scale
       /\ \A f \in DOMAIN config.field_emphasis \ {field_name} :
            config.field_emphasis[f] = Scale

(* The response the last query returned and what its temporary engine    *)
(* had returned before the adjustments.                                  *)
LastReturned == query_history[Len(query_history)].response

LastRaw == adj_trace[1].temp_response

LastCfg == adj_trace[1].cfg

(* C15: in the response of the last query, the activation of every field *)
(* with a configured emphasis is min(1.0, raw activation * emphasis), so *)
(* at most 1.0 and below zero where the product is, every other field    *)
(* keeps its raw activation, and the rest of each field state, the gate  *)
(* scores, the seeds and the coherence level are those the temporary     *)
(* engine returned.                                                      *)
FieldEmphasisClampedAbove ==
  (adj_trace # <<>> /\ query_history # <<>>) =>
    /\ \A f \in DOMAIN LastRaw.field_states :
         LET raw_state == LastRaw.field_states[f]
             product   == (raw_state.activation * LastCfg.field_emphasis[f]) \div Scale
         IN /\ LastReturned.field_states[f] =
                 [raw_state EXCEPT !.activation =
                    IF f \notin DOMAIN LastCfg.field_emphasis THEN raw_state.activation
                    ELSE IF product > Scale THEN Scale ELSE product]
            /\ LastReturned.field_states[f].activation <= Scale
    /\ DOMAIN LastReturned.field_states = DOMAIN LastRaw.field_states
    /\ LastReturned.codon_activations = LastRaw.codon_activations
    /\ LastReturned.narrative_seeds = LastRaw.narrative_seeds
    /\ LastReturned.coherence_level = LastRaw.coherence_level
    /\ LastReturned.observer_context = LastRaw.observer_context

(* A query under an emphasis below zero and an emphasis of 2.0 returned  *)
(* an activation below zero, the seed of that field still the one        *)
(* computed before, and an activation of 1.0 for a raw one above 0.5; a  *)
(* third field had no emphasis.                                          *)
FieldEmphasisWitness ==
  /\ adj_trace # <<>>
  /\ query_history # <<>>
  /\ \E f \in DOMAIN LastCfg.field_emphasis :
       /\ LastCfg.field_emphasis[f] < 0
       /\ LastRaw.field_states[f].activation > 0
       /\ LastReturned.field_states[f].activation < 0
       /\ LastReturned.field_states[f].narrative_seed = LastRaw.field_states[f].narrative_seed
  /\ \E f \in DOMAIN LastCfg.field_emphasis :
       /\ LastCfg.field_emphasis[f] = 2 * Scale
       /\ LastRaw.field_states[f].activation > Scale \div 2
       /\ LastReturned.field_states[f].activation = Scale
  /\ \E f \in DOMAIN LastRaw.field_states : f \notin DOMAIN LastCfg.field_emphasis

(* C16: on the raw response of the last query, under the configuration  *)
(* of that query, the awareness adjustment followed by the field         *)
(* adjustment gives the response that the field adjustment followed by   *)
(* the awareness adjustment gives, and the response returned is that     *)
(* one: each adjustment applied once to what the temporary engine        *)
(* returned.                                                             *)
AdjustmentsCommute ==
  (adj_trace # <<>> /\ query_history # <<>>) =>
    /\ apply_field_adjustments(LastCfg, apply_awareness_adjustments(LastCfg, LastRaw))
         = apply_awareness_adjustments(LastCfg, apply_field_adjustments(LastCfg, LastRaw))
    /\ LastReturned
         = apply_awareness_adjustments(LastCfg, apply_field_adjustments(LastCfg, LastRaw))

(* A query both adjustments changed, and that a second application of    *)
(* either would change again.                                            *)
AdjustmentsCommuteWitness ==
  /\ adj_trace # <<>>
  /\ query_history # <<>>
  /\ LastReturned.awareness_scores # LastRaw.awareness_scores
  /\ LastReturned.field_states # LastRaw.field_states
  /\ apply_awareness_adjustments(LastCfg, LastReturned) # LastReturned
  /\ apply_field_adjustments(LastCfg, LastReturned) # LastReturned

(* C17: no call on an AdjustableConsciousness (an adjustment, an overlay *)
(* added or removed, a query, compare_configurations) changes a response *)
(* that an earlier query returned: every entry of query_history keeps    *)
(* its place and its response, gate scores, awareness scores, field      *)
(* states and coherence level included.                                  *)
ReturnedResponsesUnchanged ==
  [][ /\ Len(query_history') >= Len(query_history)
      /\ \A i \in 1..Len(query_history) :
           query_history'[i].response = query_history[i].response
    ]_vars

(* A response was returned, and a later query ran under a configuration  *)
(* whose adjustments would have changed that response.                   *)
ReturnedResponsesWitness ==
  /\ Len(query_history) = 2
  /\ adj_trace # <<>>
  /\ query_history[1].config # query_history[2].config
  /\ apply_field_adjustments(LastCfg, query_history[1].response) # query_history[1].response
  /\ apply_awareness_adjustments(LastCfg, query_history[1].response) # query_history[1].response

(* C19: the last query, whether or not its coherence fell below the      *)
(* threshold of its configuration, left an entry in query_history that   *)
(* holds its question, the full adjusted response and the exported       *)
(* configuration; the threshold decided only whether the warning was     *)
(* printed.                                                              *)
BelowThresholdStillReturned ==
  adj_trace # <<>> =>
    /\ query_history # <<>>
    /\ LET last == query_history[Len(query_history)]
       IN /\ last.question = adj_trace[1].question
          /\ last.response =
               apply_field_adjustments(LastCfg, apply_awareness_adjustments(LastCfg, LastRaw))
          /\ DOMAIN last.response = DOMAIN LastRaw
          /\ DOMAIN last.response.field_states = Range(FieldNames)
          /\ DOMAIN last.response.codon_activations = 1..64
          /\ last.config.field_emphasis = LastCfg.field_emphasis
          /\ adj_trace[1].warning = (last.response.coherence_level < LastCfg.coherence_threshold)

(* A query whose coherence was below the threshold of its configuration  *)
(* is the last entry of the history, after one that was not below it.    *)
BelowThresholdWitness ==
  /\ Len(query_history) = 2
  /\ adj_trace # <<>>
  /\ adj_trace[1].warning
  /\ query_history[1].response.coherence_level >= ConsciousnessConfiguration.coherence_threshold
  /\ LastReturned.coherence_level < LastCfg.coherence_threshold
  /\ LastReturned.coherence_level > 0

(* The sum of f over the elements of a finite set. *)
RECURSIVE SumOver(_, _)
SumOver(S, f) ==
  IF S = {} THEN 0
  ELSE LET x == CHOOSE y \in S : TRUE IN f[x] + SumOver(S \ {x}, f)

(* The unordered pairs of fields, as pairs of positions in FieldNames. *)
FieldPairs == {pair \in (1..Len(FieldNames)) \X (1..Len(FieldNames)) : pair[1] < pair[2]}

(* C20: the coherence level of every response is half the sum of the     *)
(* mean of its nine field coherences and the mean of the resonance over  *)
(* the 36 unordered pairs of fields, and lies in (0, 1]; on the same     *)
(* field states with every resonance table emptied,                      *)
(* _compute_system_coherence takes the resonance mean as 0.              *)
SystemCoherenceIsMeanOfMeans ==
  \A c \in engine_log :
    LET states        == c.response.field_states
        avg_coherence == SumOver(DOMAIN states, [f \in DOMAIN states |-> states[f].coherence])
                           \div 9
        avg_resonance == SumOver(FieldPairs,
                           [pair \in FieldPairs |->
                              states[FieldNames[pair[1]]].resonance[FieldNames[pair[2]]]])
                           \div 36
        no_resonance  == [f \in DOMAIN states |-> [states[f] EXCEPT !.resonance = <<>>]]
    IN /\ Cardinality(DOMAIN states) = 9
       /\ Cardinality(FieldPairs) = 36
       /\ c.response.coherence_level = (avg_coherence + avg_resonance) \div 2
       /\ c.response.coherence_level > 0
       /\ c.response.coherence_level <= Scale
       /\ compute_system_coherence(no_resonance) = (avg_coherence + 0) \div 2

(* A response whose field coherences are not all equal and whose         *)
(* resonances are not all equal, with a coherence level below 1.         *)
SystemCoherenceWitness ==
  \E c \in engine_log :
    LET states == c.response.field_states
    IN /\ \E f \in DOMAIN states : states[f].coherence # states["Mind"].coherence
       /\ \E f \in DOMAIN states, g \in DOMAIN states :
            f # g /\ f # "Mind" /\ g # "Heart"
              /\ states[f].resonance[g] # states["Mind"].resonance["Heart"]
       /\ c.response.coherence_level < Scale

(* What the call of thread t returns when nothing else runs on the       *)
(* engine.                                                               *)
AloneResponse(t) ==
  query_response(params, topk_ties, birth_placements, body_sun, edge_index, awareness_masks,
                 initialize_from_quantum_state, thread_local[t].question,
                 thread_local[t].observer_state, FALSE, Zeros(NumGates))

(* C18: of two calls of query without the perturbation that interleave   *)
(* on one engine with no lock, neither raises, and each returns the      *)
(* response that the same call returns when it runs alone.               *)
InterleavedQueriesAsAlone ==
  \A t \in DOMAIN thread_pc :
    /\ thread_pc[t] # "raised"
    /\ thread_pc[t] = "done" => thread_local[t].response = <<AloneResponse(t)>>

(* Both threads found the flag unset; the first has returned while the   *)
(* second is still assigning the fields of the table the first read.     *)
InterleavedQueriesWitness ==
  /\ thread_pc # <<>>
  /\ thread_pc[1] = "done"
  /\ thread_local[1].ran_initialize
  /\ thread_pc[2] = "initialize"
  /\ thread_local[2].k \in 2..Len(FieldNames)
  /\ consciousness_initialized

(* The seeds of the listed fields of a response, in the listed order. *)
SeedsOf(response, names) ==
  [i \in 1..Len(names) |-> response.field_states[names[i]].narrative_seed]

(* C21: the narrative seeds of every response are exactly the four       *)
(* bundles spleen, ajna, solar and core; each bundle is its label        *)
(* followed by the seeds of its fields in the fixed order (Body, Lower,  *)
(* Shadow / Mind, Higher / Heart, Spirit / Soul, Core), so that each of  *)
(* the nine fields' seeds is in exactly one bundle.                      *)
NarrativeSeedsInFourBundles ==
  \A c \in engine_log :
    LET r == c.response
        seeds == r.narrative_seeds
    IN /\ DOMAIN seeds = {"spleen", "ajna", "solar", "core"}
       /\ seeds.spleen = [label |-> "Survival consciousness",
                          seeds |-> SeedsOf(r, <<"Body", "Lower", "Shadow">>)]
       /\ seeds.ajna   = [label |-> "Mental consciousness",
                          seeds |-> SeedsOf(r, <<"Mind", "Higher">>)]
       /\ seeds.solar  = [label |-> "Emotional consciousness",
                          seeds |-> SeedsOf(r, <<"Heart", "Spirit">>)]
       /\ seeds.core   = [label |-> "Core identity",
                          seeds |-> SeedsOf(r, <<"Soul", "Core">>)]
       /\ \A f \in Range(FieldNames) :
            Cardinality({k \in DOMAIN seeds :
                           \E i \in 1..Len(seeds[k].seeds) :
                             seeds[k].seeds[i] = r.field_states[f].narrative_seed}) = 1

(* A response whose nine field seeds are pairwise different was bundled. *)
NarrativeSeedsWitness ==
  \E c \in engine_log :
    /\ DOMAIN c.response.field_states = Range(FieldNames)
    /\ \A f \in Range(FieldNames) : \A g \in Range(FieldNames) :
         f # g => c.response.field_states[f].narrative_seed
                    # c.response.field_states[g].narrative_seed
    /\ Len(c.response.narrative_seeds.spleen.seeds) = 3

(* The calls of the log made with the perturbation. *)
PerturbedCalls == {c \in engine_log : c.use_intention_perturbation}

(* C22: in every call made with the perturbation, the perturbation is    *)
(* the random draw plus 0.3 on exactly the gates whose encoded base row  *)
(* has a non-zero entry, plus nothing on every other gate, and every     *)
(* feature of a gate's row handed to the network is the base feature     *)
(* plus 0.1 times that gate's perturbation.                              *)
IntentionBiasedToActiveGates ==
  \A c \in PerturbedCalls :
    \A base \in {encode_placements(birth_placements)} :
      \E noise \in Noises :
        \A g \in Gates :
          /\ c.features.perturbation[1][g] - noise[g] =
               IF \E j \in 1..Len(base[g]) : base[g][j] # 0
               THEN (3 * Scale) \div 10 ELSE 0
          /\ Len(c.features.node_features[g]) = Len(base[g])
          /\ \A j \in 1..Len(base[g]) :
               c.features.node_features[g][j] =
                 base[g][j] + c.features.perturbation[1][g] \div 10

(* A perturbed call on a chart with a gate that is boosted, a gate that  *)
(* holds no placement, and a gate whose only placement encodes to a zero *)
(* row (a planet the encoder does not know), the last two not boosted.   *)
IntentionBiasWitness ==
  \E c \in PerturbedCalls :
    \A base \in {encode_placements(birth_placements)} :
      /\ \E g \in Gates : /\ SumSeq(base[g]) > 0
                          /\ c.features.perturbation[1][g] >= (3 * Scale) \div 10
                          /\ c.features.node_features[g] # base[g]
      /\ \E g \in Gates : /\ \A p \in Range(birth_placements) : p.gate # g
                          /\ c.features.perturbation[1][g] = 0
                          /\ c.features.node_features[g] = base[g]
      /\ \E g \in Gates : /\ \E p \in Range(birth_placements) : p.gate = g
                          /\ SumSeq(base[g]) = 0
                          /\ c.features.perturbation[1][g] = 0

(* C23: encode_sun_context returns, for a placement with gate in 1..64   *)
(* and line in 1..6, a vector of width 80 that is one-hot at index       *)
(* gate - 1 within its first 64 entries, one-hot at index line - 1       *)
(* within the next 6, holds degree / 360 (0 without a degree) at index   *)
(* 70 and 0 in the last 9 entries; for a gate or a line outside those    *)
(* ranges it returns no vector.                                          *)
SunContextOneHotOrRejected ==
  \A e \in Range(placement_ops.encoded) :
    LET p == e.sun_placement
    IN IF p.gate \in 1..64 /\ p.line \in 1..6
       THEN /\ e.outcome = "returned"
            /\ Len(e.vector) = 80
            /\ \A i \in 1..64 : e.vector[i] = IF i = p.gate THEN Scale ELSE 0
            /\ \A i \in 1..6 : e.vector[64 + i] = IF i = p.line THEN Scale ELSE 0
            /\ e.vector[71] = IF p.degree = <<>> THEN 0 ELSE (p.degree[1] * Scale) \div 360
            /\ \A i \in 72..80 : e.vector[i] = 0
       ELSE e.outcome # "returned"

(* The stored list, or the empty list where none is stored or wanted. *)
ListIf(wanted, stored) == IF wanted /\ stored # <<>> THEN stored[1] ELSE <<>>

DominantGatesAreTopThree ==
  \A c \in engine_log :
    \A f \in DOMAIN c.response.field_states :
      LET dominant == c.response.field_states[f].dominant_gates
          scores   == c.response.codon_activations
      IN /\ Len(dominant) = Min(3, Cardinality(FieldGateSet(f)))
         /\ \A i \in 1..Len(dominant) : \A j \in 1..Len(dominant) :
              dominant[i] = dominant[j] => i = j
         /\ Range(dominant) \subseteq FieldGateSet(f)
         /\ \A i \in 1..(Len(dominant) - 1) :
              scores[dominant[i]] >= scores[dominant[i + 1]]
         /\ \A g \in FieldGateSet(f) \ Range(dominant) :
              \A i \in 1..Len(dominant) : scores[g] <= scores[dominant[i]]

(* A response in which a field of more than three gates has a gate       *)
(* outside its dominant gates that scores strictly lower than the last   *)
(* of them, the dominant gates are not the first three of the field's    *)
(* list, and their scores strictly decrease somewhere.                   *)
DominantGatesWitness ==
  \E c \in engine_log :
    \E f \in DOMAIN c.response.field_states :
      LET dominant == c.response.field_states[f].dominant_gates
          scores   == c.response.codon_activations
      IN /\ Cardinality(FieldGateSet(f)) > 3
         /\ Len(dominant) = 3
         /\ dominant # SubSeq(get_field_gates(f), 1, 3)
         /\ scores[dominant[1]] > scores[dominant[3]]
         /\ \E g \in FieldGateSet(f) \ Range(dominant) : scores[g] < scores[dominant[3]]

(* The Sun placement a logged call used for its observer vector: the     *)
(* override's if one was passed, else the engine's body Sun, if any.     *)
SunUsed(c) ==
  IF c.observer_state # <<>> THEN <<c.observer_state[1].sun_placement>> ELSE body_sun

(* C26: the observer_context of every response holds the gate and the    *)
(* line of the Sun placement whose encoding was the observer vector of   *)
(* that call (None for both where the vector was the zero fallback),     *)
(* also when the caller passed an override with a sun_placement.         *)
ObserverContextReportsUsedSun ==
  \A c \in engine_log :
    /\ c.sun_context = IF SunUsed(c) # <<>> THEN encode_sun_context(SunUsed(c)[1])
                       ELSE Zeros(SunDim)
    /\ c.response.observer_context =
         [sun_gate |-> IF SunUsed(c) # <<>> THEN <<SunUsed(c)[1].gate>> ELSE <<>>,
          sun_line |-> IF SunUsed(c) # <<>> THEN <<SunUsed(c)[1].line>> ELSE <<>>]

(* The node features the temporary engine of a traced query handed to    *)
(* its network, and the perturbation behind them: steps 1 and 2 of the   *)
(* engine's query on the composite chart, with the flag the query passed *)
(* and the draw it made.                                                 *)
TraceFeatures(trace) ==
  step_node_features(trace.composite, trace.question,
                     trace.use_intention_perturbation, trace.noise)

(* What those features hold for gate g beyond the encoded chart and the  *)
(* random draw: a tenth of the perturbation less the draw.               *)
AddedBeyondNoise(features, noise, g) ==
  IF features.perturbation = <<>> THEN 0
  ELSE (features.perturbation[1][g] - noise[g]) \div 10

(* C27: a query with intention_strength 0 hands the network the encoded  *)
(* chart unperturbed, and of two successive queries on the same chart    *)
(* with different positive strengths the one with the greater strength   *)
(* adds, the random draw apart, strictly more to the features of every   *)
(* gate that the weaker one added to.                                    *)
IntentionStrengthScalesPerturbation ==
  [][ (adj_trace # <<>> /\ Len(query_history') > Len(query_history)) =>
        \A old \in {TraceFeatures(adj_trace[1])}, new \in {TraceFeatures(adj_trace'[1])} :
          /\ (adj_trace'[1].intention_strength = 0 =>
                new.node_features = encode_placements(adj_trace'[1].composite))
          /\ (/\ adj_trace[1].composite = adj_trace'[1].composite
              /\ adj_trace[1].intention_strength > 0
              /\ adj_trace[1].intention_strength < adj_trace'[1].intention_strength
                => \A g \in Gates :
                     AddedBeyondNoise(old, adj_trace[1].noise, g) > 0 =>
                       AddedBeyondNoise(old, adj_trace[1].noise, g)
                         < AddedBeyondNoise(new, adj_trace'[1].noise, g))
    ]_vars

(* C28: compare_configurations(question, configs) returns one response   *)
(* for each configuration of the list, under the keys config_0 to        *)
(* config_{n-1}; response i is the response of its query adjusted with   *)
(* configs[i] and is the response of the i-th entry the call appended to *)
(* query_history, which has grown by exactly len(configs) entries; and   *)
(* the configuration of the instance is the one it was before the call.  *)
CompareReturnsOnePerConfig ==
  [][ LET call == compare_call'[1]
          n    == Len(call.configs)
      IN /\ DOMAIN call.results = 0..(n - 1)
         /\ Len(call.traces) = n
         /\ \A i \in 0..(n - 1) :
              /\ call.results[i] =
                   apply_field_adjustments(call.configs[i + 1],
                     apply_awareness_adjustments(call.configs[i + 1],
                                                 call.traces[i + 1].temp_response))
              /\ call.results[i] = query_history'[Len(query_history) + i + 1].response
              /\ query_history'[Len(query_history) + i + 1].question = call.question
         /\ Len(query_history') = Len(query_history) + n
         /\ SubSeq(query_history', 1, Len(query_history)) = query_history
         /\ config' = config
    ]_vars

(* A call with two configurations, the last of them not the one in       *)
(* force, returned two responses that differ and left the configuration  *)
(* in force as it was.                                                   *)
CompareWitness ==
  /\ compare_call # <<>>
  /\ Len(compare_call[1].configs) = 2
  /\ DOMAIN compare_call[1].results = {0, 1}
  /\ compare_call[1].results[0] # compare_call[1].results[1]
  /\ compare_call[1].configs[2] # config
  /\ Len(query_history) >= 2

(* The snapshot _export_current_config takes of the instance as it is. *)
SnapshotNow ==
  [chart_system          |-> config.primary_chart_system,
   awareness_sensitivity |-> config.awareness_sensitivity,
   field_emphasis        |-> config.field_emphasis,
   transit_weight        |-> config.transit_weight,
   has_transits          |-> current_transits # <<>>,
   has_progressions      |-> current_progressions # <<>>]

(* C29: a call of query appends exactly one entry to query_history, at   *)
(* its end, holding the question and the snapshot of the configuration   *)
(* and overlays in force for that query; and no call (a query, an        *)
(* adjustment of a sensitivity or an emphasis, an overlay added or       *)
(* removed) removes, moves or changes an entry already there, its        *)
(* configuration snapshot included.                                      *)
HistoryAppendOnlyWithSnapshots ==
  [][ /\ Len(query_history') >= Len(query_history)
      /\ \A i \in 1..Len(query_history) : query_history'[i] = query_history[i]
      /\ \A noise \in Noises :
           adjustable_query("test", TRUE, TRUE, Scale, DrawnParams, noise) =>
             /\ Len(query_history') = Len(query_history) + 1
             /\ query_history'[Len(query_history')].question = "test"
             /\ query_history'[Len(query_history')].config = SnapshotNow
    ]_vars

(* An entry whose snapshot holds a sensitivity or an emphasis that the   *)
(* configuration no longer holds: it was adjusted after the query.       *)
HistorySnapshotWitness ==
  /\ query_history # <<>>
  /\ \/ query_history[1].config.field_emphasis # config.field_emphasis
     \/ query_history[1].config.awareness_sensitivity # config.awareness_sensitivity
  /\ query_history[1].config.chart_system = config.primary_chart_system

(* The focus names that are keys of focus_presets. *)
RecognisedFocus == {"survival", "mental", "emotional", "balanced"}

(* C30: a call of VirtualConsciousnessAPI.query with a recognised focus  *)
(* makes that preset the configuration of the consciousness; a call with *)
(* no focus or an unrecognised one leaves the configuration the object   *)
(* it was, sensitivities included, with no reset to the default; the     *)
(* query runs under that configuration; and a recognised chart system is *)
(* written into that object, so into the shared preset when the          *)
(* configuration is one, the other presets staying as they were.         *)
FocusPresetPersists ==
  [][ LET asked == api_call'[1].query
      IN /\ (asked.focus \in RecognisedFocus =>
               /\ api_focus' = asked.focus
               /\ config'.awareness_sensitivity = focus_presets[asked.focus].awareness_sensitivity)
         /\ (asked.focus \notin RecognisedFocus =>
               /\ api_focus' = api_focus
               /\ config'.awareness_sensitivity = config.awareness_sensitivity
               /\ config'.field_emphasis = config.field_emphasis)
         /\ adj_trace'[1].cfg = config'
         /\ query_history'[Len(query_history')].config.awareness_sensitivity
              = config'.awareness_sensitivity
         /\ (asked.chart_system \in {"sidereal", "tropical", "draconic"} =>
               config'.primary_chart_system = asked.chart_system)
         /\ (asked.chart_system \notin {"sidereal", "tropical", "draconic"} =>
               config'.primary_chart_system =
                 IF api_focus' = api_focus THEN config.primary_chart_system
                 ELSE focus_presets[api_focus'].primary_chart_system)
         /\ (api_focus' # "own" => focus_presets'[api_focus'] = config')
         /\ \A f \in DOMAIN focus_presets \ {api_focus'} : focus_presets'[f] = focus_presets[f]
    ]_vars

(* After a focused query, a query with no focus or an unrecognised one   *)
(* ran under the survival preset, not the default, and wrote another     *)
(* chart system into that preset.                                        *)
FocusPresetWitness ==
  /\ Len(query_history) = 2
  /\ api_call # <<>>
  /\ api_call[1].query.focus \notin RecognisedFocus
  /\ api_focus = "survival"
  /\ adj_trace[1].cfg.awareness_sensitivity = FocusPresets["survival"].awareness_sensitivity
  /\ adj_trace[1].cfg.awareness_sensitivity # ConsciousnessConfiguration.awareness_sensitivity
  /\ query_history[1].config.chart_system = "sidereal"
  /\ query_history[2].config.chart_system = "tropical"
  /\ focus_presets["survival"].primary_chart_system = "tropical"
=============================================================================
